---- MODULE Spec2Model ----
(***************************************************************************)
(* A model of stubzen's signature extraction and stub generation engine.   *)
(* The inspected code base (classes, their resolution order, annotations,  *)
(* members, constructor attributes, type variable bounds) is the input of  *)
(* the program: it is drawn in Init and never changes.  The operators      *)
(* below compute what the code computes from it.                           *)
(***************************************************************************)
EXTENDS Integers, Sequences, FiniteSets, TLC

VARIABLES
    annotations,      \* cls.__annotations__ : class -> name -> raw annotation
    module_typevars,  \* module -> bounds of its top-level TypeVar declarations
    orig_bases,       \* cls.__orig_bases__ : class -> bounds of its Generic[...] arguments
    declared,         \* cls.__dict__ : class -> name -> member object
    init_attrs,       \* class -> the self.<name>: <annotation> assignments of its own __init__
    base_classes,     \* StubzenConfig: the configured base and mixin classes
    stub_style,       \* StubzenConfig.stub_style
    project_modules,  \* the modules ModuleFinder finds, in its order
    source_imports,   \* module -> the top-level "from m import n" statements of its source
    type_checking,    \* module -> the "from m import n" statements of its TYPE_CHECKING block
    unwritable,       \* the paths at which creating or opening a file for writing raises
    sys_modules,      \* sys.modules: the external modules loaded so far
    result,           \* what the last directly applied operation returned
    pc,               \* where StubGenerateCommand.execute stands
    unit_idx,         \* the position of execute's loop in the stub plan
    class_idx,        \* the position of generate_stub_file's loop in class_infos
    type_resolver,    \* SignatureExtractor.type_resolver: the four registries
    missing_annotations, \* SignatureExtractor.missing_annotations
    all_signatures,   \* generate_stub_file: the signatures of the unit so far
    class_contents,   \* generate_stub_file: the class bodies of the unit so far
    stub_files,       \* the stub files the run has written, in order
    success_count,    \* execute's counters
    validation_errors,
    report,           \* the list the final missing-annotation report was made from
    returned,         \* what execute returned
    produced,         \* history: every MissingAnnotation record appended during the run
    unit_resolver,    \* history: the registries fed by the current unit alone
    headers,          \* history: the import header generated for each unit
    run_count,        \* history: how many times execute has been started
    previous_files,   \* history: the stub files the previous run wrote
    now,              \* time.time(), in seconds
    last_regeneration, \* StubChangeHandler.last_regeneration
    run_starts,       \* history: when each regeneration of the watcher started
    handler_pc,       \* where the observer's thread stands in on_modified
    events            \* history: the qualifying modification events handed to on_modified

world == <<annotations, module_typevars, orig_bases, declared, init_attrs,
           base_classes, stub_style, project_modules, source_imports, type_checking,
           unwritable>>
run == <<unit_idx, class_idx, type_resolver, missing_annotations, all_signatures,
         class_contents, stub_files, success_count, validation_errors, report,
         returned, produced, unit_resolver, headers, run_count, previous_files>>
watcher == <<now, last_regeneration, run_starts, handler_pc, events>>
vars == <<annotations, module_typevars, orig_bases, declared, init_attrs,
          base_classes, stub_style, project_modules, source_imports, type_checking,
          unwritable, sys_modules, result, pc, unit_idx, class_idx, type_resolver, missing_annotations, all_signatures,
          class_contents, stub_files, success_count, validation_errors, report,
          returned, produced, unit_resolver, headers, run_count, previous_files,
          now, last_regeneration, run_starts, handler_pc, events>>

(***************************************************************************)
(* The class universe.  D(B, C), B(A), C(A) is a diamond; I(IB) is an      *)
(* interface used as the upper bound of a type variable.                   *)
(***************************************************************************)
Classes == {"A", "B", "C", "D", "I", "IB"}

\* cls.__mro__, the universal root included
Mro(cls) ==
    CASE cls = "A"  -> <<"A", "object">>
      [] cls = "B"  -> <<"B", "A", "object">>
      [] cls = "C"  -> <<"C", "A", "object">>
      [] cls = "D"  -> <<"D", "B", "C", "A", "object">>
      [] cls = "IB" -> <<"IB", "object">>
      [] cls = "I"  -> <<"I", "IB", "object">>
      [] OTHER      -> <<"object">>

\* cls.__module__
ClassModule(cls) ==
    CASE cls \in {"A", "B", "C", "D"} -> "pkg.a"
      [] cls \in {"I", "IB"}          -> "pkg.iface"
      [] cls = "E"                    -> "ext"
      [] OTHER                        -> "builtins"

Modules == {"pkg.a", "pkg.iface"}

\* every member and attribute name of the universe, in the order of
\* inspect.getmembers (sorted by name)
NameOrder == <<"__doc__", "__init__", "__repr__", "__str__", "_abc_k", "k", "m", "x", "y">>

Names == {NameOrder[i] : i \in 1..Len(NameOrder)}

NoHint == "-"            \* the key is absent from the mapping
NoneObj == "NoneObj"     \* the annotation is the object None (m: None), unresolved
NoneType == "NoneType"   \* type(None), what get_type_hints makes of None
Unres == "'Unknown'"     \* a string annotation naming nothing that can be evaluated
ExternalRef == "'E'"     \* a string annotation naming a class imported under TYPE_CHECKING only
AnyType == "Any"

EmptyHints == [n \in Names |-> NoHint]

\* dict.update: the entries of b overwrite those of a
Update(a, b) == [n \in Names |-> IF b[n] # NoHint THEN b[n] ELSE a[n]]

SeqToSet(s) == {s[i] : i \in 1..Len(s)}

Reverse(s) == [i \in 1..Len(s) |-> s[Len(s) + 1 - i]]

\* [base for base in cls.__mro__[1:] if base.__name__ != 'object']
Ancestors(cls) == SelectSeq(Tail(Mro(cls)), LAMBDA b : b # "object")

\* the annotations a class body declares; the universal root declares none
OwnAnnotations(cls) == IF cls \in Classes THEN annotations[cls] ELSE EmptyHints

\* typing.get_type_hints evaluates every string annotation of every class of
\* the resolution order and raises NameError on one that names nothing
GetTypeHintsRaises(cls) ==
    \E i \in 1..Len(Mro(cls)) : \E n \in Names :
        OwnAnnotations(Mro(cls)[i])[n] \in {Unres, ExternalRef}

\* what typing.get_type_hints makes of one annotation
ResolveAnnotation(v) == IF v = NoneObj THEN NoneType ELSE v

\* typing.get_type_hints(cls): the annotations of the whole resolution order,
\* folded from the farthest class to cls itself
RECURSIVE TypingFold(_, _)
TypingFold(mro, i) ==
    IF i = 0 THEN EmptyHints
    ELSE Update([n \in Names |-> ResolveAnnotation(OwnAnnotations(mro[i])[n])],
                TypingFold(mro, i - 1))

TypingGetTypeHints(cls) == TypingFold(Mro(cls), Len(Mro(cls)))

\* SignatureExtractor._get_direct_type_hints
GetDirectTypeHints(cls) ==
    IF GetTypeHintsRaises(cls) THEN OwnAnnotations(cls) ELSE TypingGetTypeHints(cls)

RECURSIVE FoldInherited(_, _, _)
FoldInherited(classes_to_check, i, type_hints) ==
    IF i > Len(classes_to_check) THEN type_hints
    ELSE FoldInherited(classes_to_check, i + 1,
                       Update(type_hints, GetDirectTypeHints(classes_to_check[i])))

\* SignatureExtractor._get_type_hints
GetTypeHints(cls, include_inherited) ==
    LET inherited == IF include_inherited
                     THEN FoldInherited(Reverse(Ancestors(cls)), 1, EmptyHints)
                     ELSE EmptyHints
    IN Update(inherited, GetDirectTypeHints(cls))

\* StandardMemberProcessor._get_typevar_bounds: the bounds of every bounded
\* TypeVar of the defining module, then those of the class's Generic[...] arguments
GetTypevarBounds(cls) == module_typevars[ClassModule(cls)] \o orig_bases[cls]

\* the test of extractor.py line 68: type_hints.get(name) is None, or is Any
BoundMayOverride(current_type) == current_type \in {NoHint, NoneObj, AnyType}

\* one bound's hints merged into the working map (extractor.py lines 65-70)
MergeBoundHints(type_hints, bound_type_hints) ==
    [n \in Names |->
        IF bound_type_hints[n] # NoHint /\ BoundMayOverride(type_hints[n])
        THEN bound_type_hints[n] ELSE type_hints[n]]

RECURSIVE MergeBounds(_, _, _)
MergeBounds(bounds, i, type_hints) ==
    IF i > Len(bounds) THEN type_hints
    ELSE MergeBounds(bounds, i + 1,
                     MergeBoundHints(type_hints, GetTypeHints(bounds[i], TRUE)))

\* the type_hints of the context extract_class_signature builds (lines 51-70)
EffectiveTypeHints(cls, include_inherited) ==
    IF include_inherited
    THEN MergeBounds(GetTypevarBounds(cls), 1, GetTypeHints(cls, TRUE))
    ELSE GetTypeHints(cls, FALSE)

(***************************************************************************)
(* Types.  A class object is written by its name; a string annotation is   *)
(* written with its quotes.                                                *)
(***************************************************************************)
BuiltinClasses == {"int", "str"}
StringAnnotations == {"'Unknown'", "'B'", "'E'"}

\* a class of a module outside the project, which no project module imports
\* at run time
ExternalClasses == {"E"}

\* the text of a string annotation without its quotes: type_str.strip("'\"")
StripQuotes(t) ==
    CASE t = "'Unknown'" -> "Unknown"
      [] t = "'B'"       -> "B"
      [] t = "'E'"       -> "E"
      [] OTHER           -> t

\* the str object holding an annotation text
AsString(text) == "'" \o text \o "'"

\* hasattr(type_obj, '__module__') and hasattr(type_obj, '__name__')
IsClassObject(t) == t \in Classes \cup BuiltinClasses \cup ExternalClasses

\* type_obj.__module__
TypeModule(t) == IF t \in BuiltinClasses THEN "builtins" ELSE ClassModule(t)

\* StubzenConfig.exclude_modules: the project excludes the dependency dep
ExcludeModules == {"dep"}

\* StubzenConfig.is_excluded_module: an excluded text occurs in the module
\* name; over the module names of the universe, only in dep itself
IsExcludedModule(module_name) == module_name \in ExcludeModules

\* TypeResolver.__init__: the four registries, empty
EmptyResolver ==
    [used_types |-> {}, string_type_references |-> {},
     forward_references |-> {}, complex_type_expressions |-> {}]

\* a plausible slip: one registry is left out of the reset
MutClearKeepsForwardRefs(r) ==
    [r EXCEPT !.used_types = {}, !.string_type_references = {},
              !.complex_type_expressions = {}]

\* TypeResolver.clear
ResolverClear(r) == EmptyResolver

\* the longest dotted name drawn
MaxComponents == 4

\* what a component of a dotted name may be
Components == {"pkg", "sub", "Name"}

\* '.'.join(parts), from the i-th part on
RECURSIVE JoinDots(_, _)
JoinDots(parts, i) ==
    IF i > Len(parts) THEN ""
    ELSE (IF i > 1 THEN "." ELSE "") \o parts[i] \o JoinDots(parts, i + 1)

\* the component lists of the dotted names: two components at least
DottedParts == UNION {[1..n -> Components] : n \in 2..MaxComponents}

\* the str objects holding a dotted name: a dot, no bracket, no space
DottedTexts == {AsString(JoinDots(parts, 1)) : parts \in DottedParts}

\* TypeResolver._is_dotted_name
IsDottedName(t) == t \in DottedTexts

\* clean_str.split('.')
SplitDots(t) == CHOOSE parts \in DottedParts : AsString(JoinDots(parts, 1)) = t

\* TypeResolver._format_dotted_name
FormatDottedName(t) ==
    LET parts == SplitDots(t)
    IN IF Len(parts) = 2 THEN parts[2] ELSE "'" \o JoinDots(parts, 1) \o "'"

\* TypeResolver.track_type; the forward reference "module.Class" is kept as
\* the pair its rsplit('.', 1) gives back
TrackType(r, t) ==
    IF t \in {NoHint, NoneObj, AnyType, NoneType} THEN r
    ELSE LET r1 == [r EXCEPT !.used_types = @ \cup {t}]
         IN IF IsClassObject(t) /\ ~IsExcludedModule(TypeModule(t))
            THEN [r1 EXCEPT !.forward_references = @ \cup {<<TypeModule(t), t>>}]
            ELSE r1

\* TypeResolver.format_type: the text, and the resolver after the call
FormatType(r, t) ==
    IF t \in {NoHint, NoneObj, NoneType} THEN [text |-> "None", r |-> r]
    ELSE IF t = AnyType THEN [text |-> "Any", r |-> r]
    ELSE IF IsDottedName(t) THEN [text |-> FormatDottedName(t), r |-> r]
    ELSE IF t \in StringAnnotations
         THEN [text |-> "'" \o StripQuotes(t) \o "'",
               r |-> [r EXCEPT !.string_type_references = @ \cup {StripQuotes(t)}]]
    ELSE [text |-> t, r |-> TrackType(r, t)]

\* track_type followed by format_type, as every creator calls them
TrackAndFormat(r, t) == FormatType(TrackType(r, t), t)

\* a parameterized annotation, by typing.get_origin and typing.get_args of
\* it.  The origin of Union[X, Y] and Optional[X] is typing.Union ("Union");
\* the origin of X | Y is types.UnionType ("UnionType"), which is not
\* typing.Union on the interpreters 3.10 to 3.13
Generic(origin, args) == [origin |-> origin, args |-> args]

\* ', '.join(format_type(arg) for arg in args)
RECURSIVE JoinFormatted(_, _, _)
JoinFormatted(r, args, i) ==
    IF i > Len(args) THEN <<>>
    ELSE (IF i > 1 THEN <<", ">> ELSE <<>>)
         \o <<FormatType(r, args[i]).text>> \o JoinFormatted(r, args, i + 1)

\* getattr(origin, '__name__', str(origin))
OriginName(origin) == origin

\* TypeResolver._format_generic_type: the text it returns
FormatGenericType(r, annotation) ==
    IF annotation.origin = "list"
    THEN <<"List", "[", FormatType(r, annotation.args[1]).text, "]">>
    ELSE IF annotation.origin = "Union"
    THEN IF Len(annotation.args) = 2 /\ NoneType \in SeqToSet(annotation.args)
         THEN <<"Optional", "[",
                FormatType(r, IF annotation.args[2] = NoneType THEN annotation.args[1]
                              ELSE annotation.args[2]).text,
                "]">>
         ELSE <<"Union", "[">> \o JoinFormatted(r, annotation.args, 1) \o <<"]">>
    ELSE <<OriginName(annotation.origin), "[">> \o JoinFormatted(r, annotation.args, 1) \o <<"]">>

(***************************************************************************)
(* Members.                                                                *)
(***************************************************************************)
\* an entry of a class __dict__, or a constructor-harvested attribute
MemberObj(kind, params, ret, value_type, resolved_type) ==
    [kind |-> kind, params |-> params, ret |-> ret,
     value_type |-> value_type, resolved_type |-> resolved_type]

NoMember  == MemberObj("-", <<>>, "-", "-", "-")
Function(params, ret) == MemberObj("function", params, ret, "-", "-")
Property(ret) == MemberObj("property", <<>>, ret, "-", "-")
Value(value_type) == MemberObj("value", <<>>, "-", value_type, "-")
NestedClass == MemberObj("class", <<>>, "-", "-", "-")
SlotWrapper == MemberObj("slot", <<>>, "-", "-", "-")
\* an object whose attribute lookup raises (a context-local proxy outside its context)
Proxy == MemberObj("proxy", <<>>, "-", "-", "-")
\* the SyntheticProperty object of extract_from_init
Synthetic(annotation, resolved_type) == MemberObj("synthetic", <<>>, annotation, "-", resolved_type)

\* object.__dict__ as far as the name universe goes
ObjectDict ==
    [n \in Names |->
        IF n = "__doc__" THEN Value("str")
        ELSE IF n \in {"__init__", "__repr__", "__str__"} THEN SlotWrapper
        ELSE NoMember]

ClassDict(cls) == IF cls \in Classes THEN declared[cls] ELSE ObjectDict

\* getattr(cls, name): the entry of the first class of the resolution order holding it
RECURSIVE LookupFrom(_, _, _)
LookupFrom(mro, i, name) ==
    IF i > Len(mro) THEN NoMember
    ELSE IF ClassDict(mro[i])[name].kind # "-" THEN ClassDict(mro[i])[name]
    ELSE LookupFrom(mro, i + 1, name)

GetAttr(cls, name) == LookupFrom(Mro(cls), 1, name)

\* the class whose __init__ cls.__init__ is
RECURSIVE InitOwnerFrom(_, _)
InitOwnerFrom(mro, i) ==
    IF i > Len(mro) THEN "object"
    ELSE IF ClassDict(mro[i])["__init__"].kind # "-" THEN mro[i]
    ELSE InitOwnerFrom(mro, i + 1)

InitOwner(cls) == InitOwnerFrom(Mro(cls), 1)

\* constants.py
DunderNames == {"__doc__", "__init__", "__repr__", "__str__"}   \* name.startswith('__')
BUILTIN_ATTRS == {"__doc__"}
ABC_INTERNALS == {}
VOID_METHODS == {"__init__", "__del__", "__enter__", "__exit__"}

\* StandardMemberProcessor._should_skip_member
ShouldSkipMember(name) ==
    \/ name \in DunderNames /\ name \notin {"__init__", "__str__", "__repr__"}
    \/ name \in BUILTIN_ATTRS
    \/ name \in ABC_INTERNALS

\* "Remove duplicates while preserving order" (standard.py lines 26-32)
RECURSIVE UniqueClasses(_, _, _)
UniqueClasses(classes_to_check, i, unique_classes) ==
    IF i > Len(classes_to_check) THEN unique_classes
    ELSE UniqueClasses(classes_to_check, i + 1,
            IF classes_to_check[i] \in SeqToSet(unique_classes) THEN unique_classes
            ELSE Append(unique_classes, classes_to_check[i]))

Candidate(name, obj, cls) == [name |-> name, obj |-> obj, cls |-> cls]

\* a plausible slip: the test of the class's own namespace is left out
RECURSIVE MutClassMembersInherited(_, _, _)
MutClassMembersInherited(check_cls, type_var_bounds, i) ==
    IF i > Len(NameOrder) THEN <<>>
    ELSE LET name == NameOrder[i]
             obj == GetAttr(check_cls, name)
             rest == MutClassMembersInherited(check_cls, type_var_bounds, i + 1)
         IN IF obj.kind = "-" \/ ShouldSkipMember(name) THEN rest
            ELSE <<Candidate(name, obj, check_cls)>> \o rest

\* the members one class contributes to the declared-member walk (standard.py lines 39-49)
RECURSIVE ClassMembers(_, _, _)
ClassMembers(check_cls, type_var_bounds, i) ==
    IF i > Len(NameOrder) THEN <<>>
    ELSE LET name == NameOrder[i]
             obj == GetAttr(check_cls, name)
             rest == ClassMembers(check_cls, type_var_bounds, i + 1)
         IN IF obj.kind = "-" \/ ShouldSkipMember(name) THEN rest
            ELSE IF check_cls \in SeqToSet(type_var_bounds) THEN <<Candidate(name, obj, check_cls)>> \o rest
            ELSE IF ClassDict(check_cls)[name].kind # "-" THEN <<Candidate(name, obj, check_cls)>> \o rest
            ELSE rest

RECURSIVE WalkClasses(_, _, _)
WalkClasses(unique_classes, type_var_bounds, i) ==
    IF i > Len(unique_classes) THEN <<>>
    ELSE ClassMembers(unique_classes[i], type_var_bounds, 1)
         \o WalkClasses(unique_classes, type_var_bounds, i + 1)

\* a plausible slip: the bounds are added after the class and its ancestors
MutClassesToCheckBoundsLast(cls, include_inherited) ==
    IF include_inherited
    THEN (<<cls>> \o Ancestors(cls)) \o GetTypevarBounds(cls)
    ELSE <<cls>>

\* classes_to_check of StandardMemberProcessor.get_members (standard.py lines 15-23)
ClassesToCheck(cls, include_inherited) ==
    IF include_inherited
    THEN GetTypevarBounds(cls) \o (<<cls>> \o Ancestors(cls))
    ELSE <<cls>>

\* StandardMemberProcessor.get_members
StandardGetMembers(cls, include_inherited) ==
    WalkClasses(UniqueClasses(ClassesToCheck(cls, include_inherited), 1, <<>>),
                IF include_inherited THEN GetTypevarBounds(cls) ELSE <<>>, 1)

\* whether the TYPE_CHECKING block of the module of context_class imports a
\* class of that name (utils.ast.resolve_type_string, lines 89-104)
TypeCheckingImports(type_str, context_class) ==
    /\ ClassModule(context_class) \in Modules
    /\ type_str \in ExternalClasses
    /\ <<ClassModule(type_str), type_str>> \in type_checking[ClassModule(context_class)]

\* the modules utils.ast.resolve_type_string loads: __import__ of the module
\* a TYPE_CHECKING import of the name points at
ResolveTypeStringLoads(type_str, context_class) ==
    IF TypeCheckingImports(type_str, context_class) THEN {ClassModule(type_str)} ELSE {}

\* utils.ast.resolve_type_string on the annotation text of a constructor
\* attribute: the class of that name found in the module of context_class,
\* through its TYPE_CHECKING imports or in the loaded modules, if any
ResolveTypeString(type_str, context_class, loaded) ==
    IF type_str \in Classes \cup BuiltinClasses THEN type_str
    ELSE IF TypeCheckingImports(type_str, context_class) THEN type_str
    ELSE IF type_str \in ExternalClasses /\ ClassModule(type_str) \in loaded THEN type_str
    ELSE NoneObj

\* utils.ast.extract_from_init: the attributes of the __init__ that cls.__init__
\* resolves to, each attributed to cls
ExtractFromInit(cls, type_hints, loaded) ==
    IF ClassModule(cls) \in {"abc", "typing", "builtins"} \/ InitOwner(cls) = "object" THEN <<>>
    ELSE [i \in 1..Len(init_attrs[InitOwner(cls)]) |->
             Candidate(init_attrs[InitOwner(cls)][i].name,
                 Synthetic(init_attrs[InitOwner(cls)][i].annotation,
                     IF type_hints[init_attrs[InitOwner(cls)][i].name] \notin {NoHint, NoneObj}
                     THEN type_hints[init_attrs[InitOwner(cls)][i].name]
                     ELSE IF ResolveTypeString(init_attrs[InitOwner(cls)][i].annotation,
                                               cls, loaded) \notin {NoneObj, AnyType}
                     THEN ResolveTypeString(init_attrs[InitOwner(cls)][i].annotation, cls, loaded)
                     ELSE AsString(init_attrs[InitOwner(cls)][i].annotation)),
                 cls)]

\* the modules extract_from_init loads on the way: those of the attributes
\* it has to resolve, the hint map holding nothing for them
ExtractFromInitLoads(cls, type_hints) ==
    IF ClassModule(cls) \in {"abc", "typing", "builtins"} \/ InitOwner(cls) = "object" THEN {}
    ELSE UNION {ResolveTypeStringLoads(init_attrs[InitOwner(cls)][i].annotation, cls) :
                  i \in {j \in 1..Len(init_attrs[InitOwner(cls)]) :
                            type_hints[init_attrs[InitOwner(cls)][j].name] \in {NoHint, NoneObj}}}

RECURSIVE InitWalk(_, _, _, _)
InitWalk(classes_to_check, type_hints, i, loaded) ==
    IF i > Len(classes_to_check) THEN <<>>
    ELSE ExtractFromInit(classes_to_check[i], type_hints, loaded)
         \o InitWalk(classes_to_check, type_hints, i + 1,
                     loaded \cup ExtractFromInitLoads(classes_to_check[i], type_hints))

RECURSIVE InitWalkLoads(_, _, _)
InitWalkLoads(classes_to_check, type_hints, i) ==
    IF i > Len(classes_to_check) THEN {}
    ELSE ExtractFromInitLoads(classes_to_check[i], type_hints)
         \cup InitWalkLoads(classes_to_check, type_hints, i + 1)

\* the hierarchy levels InitMemberProcessor.get_members harvests
InitLevels(cls, include_inherited) ==
    <<cls>> \o (IF include_inherited THEN Ancestors(cls) ELSE <<>>)

\* InitMemberProcessor.get_members
InitGetMembers(cls, include_inherited, type_hints) ==
    InitWalk(InitLevels(cls, include_inherited), type_hints, 1, sys_modules)

\* the constructor attributes of the bounds (extractor.py lines 92-107);
\* seen_names is still empty there, so every one of them is appended
RECURSIVE BoundInitMembers(_, _, _)
BoundInitMembers(bounds, i, loaded) ==
    IF i > Len(bounds) THEN <<>>
    ELSE ExtractFromInit(bounds[i], GetTypeHints(bounds[i], TRUE), loaded)
         \o BoundInitMembers(bounds, i + 1,
                loaded \cup ExtractFromInitLoads(bounds[i], GetTypeHints(bounds[i], TRUE)))

RECURSIVE BoundInitLoads(_, _)
BoundInitLoads(bounds, i) ==
    IF i > Len(bounds) THEN {}
    ELSE ExtractFromInitLoads(bounds[i], GetTypeHints(bounds[i], TRUE))
         \cup BoundInitLoads(bounds, i + 1)

\* sys.modules once the harvest of the class's levels is over, and once
\* that of its bounds is over too
LoadedAfterLevels(cls, include_inherited) ==
    sys_modules \cup InitWalkLoads(InitLevels(cls, include_inherited),
                                   EffectiveTypeHints(cls, include_inherited), 1)

LoadedAfterHarvest(cls, include_inherited) ==
    LoadedAfterLevels(cls, include_inherited)
    \cup (IF include_inherited THEN BoundInitLoads(GetTypevarBounds(cls), 1) ELSE {})

\* a plausible slip: the constructor attributes are gathered before the declared members
MutMembersToProcess(cls, include_inherited) ==
    InitGetMembers(cls, include_inherited, EffectiveTypeHints(cls, include_inherited))
    \o StandardGetMembers(cls, include_inherited)
    \o (IF include_inherited
        THEN BoundInitMembers(GetTypevarBounds(cls), 1, LoadedAfterLevels(cls, include_inherited))
        ELSE <<>>)

\* members_to_process of extract_class_signature (extractor.py lines 81-107)
MembersToProcess(cls, include_inherited) ==
    StandardGetMembers(cls, include_inherited)
    \o InitGetMembers(cls, include_inherited, EffectiveTypeHints(cls, include_inherited))
    \o (IF include_inherited
        THEN BoundInitMembers(GetTypevarBounds(cls), 1, LoadedAfterLevels(cls, include_inherited))
        ELSE <<>>)


(***************************************************************************)
(* Signature creators.  Each returns the signature it made ("sig"), None   *)
(* ("none") or an escaping exception ("raise"), with the resolver and the  *)
(* list of MissingAnnotation records as the call leaves them.  A text      *)
(* (raw_signature, a line of a stub) is the sequence of its lexemes.       *)
(***************************************************************************)
\* dataclasses.MissingAnnotation
MissingAnnotation(class_name, class_module, member_name, member_type, details) ==
    [class_name |-> class_name, class_module |-> class_module,
     member_name |-> member_name, member_type |-> member_type, details |-> details]

\* dataclasses.SignatureInfo; source_class is None until the extractor sets it
SignatureInfo(name, signature_type, raw_signature, return_type, details) ==
    [name |-> name, signature_type |-> signature_type, raw_signature |-> raw_signature,
     return_type |-> return_type, details |-> details, source_class |-> NoneObj]

Outcome(status, sig, resolver, missing) ==
    [status |-> status, sig |-> sig, resolver |-> resolver, missing |-> missing]

NoSignature == SignatureInfo("", "", <<>>, NoneObj, "")

\* a parameter of inspect.signature(obj); "-" stands for Parameter.empty
Param(name, annotation, default) == [name |-> name, annotation |-> annotation, default |-> default]

\* SignatureCreator._format_default_value
FormatDefaultValue(default) ==
    CASE default = "None"      -> <<" = ", "None">>
      [] default = "str:a"     -> <<" = ", "\"a\"">>
      [] default = "str:a\"b" -> <<" = ", "\"a\"b\"">>
      [] default = "int:1"     -> <<" = ", "1">>
      [] OTHER                 -> <<" = ", "...">>

\* param.default != inspect.Parameter.empty has no truth value for defaults
\* whose comparison is elementwise (arrays): the test raises ValueError
DefaultTestRaises(default) == default = "ambiguous"

\* method.py lines 41-48
ParamMissing(missing, target_class_name, defining_class, name, param_name) ==
    Append(missing, MissingAnnotation(target_class_name, ClassModule(defining_class),
                                      name \o "." \o param_name, "method_parameter",
                                      "parameter in " \o name \o "()"))

\* the parameter loop of MethodSignatureCreator.create_signature (lines 23-55);
\* acc holds params (joined), the resolver, the records and whether it raised
RECURSIVE ParamLoop(_, _, _, _, _, _)
ParamLoop(name, parameters, i, defining_class, target_class_name, acc) ==
    IF i > Len(parameters) \/ acc.raised THEN acc
    ELSE LET param == parameters[i]
             annotated == param.annotation # "-"
             tf == TrackAndFormat(acc.resolver, param.annotation)
             param_str == <<param.name, ": ", IF annotated THEN tf.text ELSE "Any">>
             resolver == IF annotated THEN tf.r ELSE acc.resolver
             missing == IF annotated THEN acc.missing
                        ELSE ParamMissing(acc.missing, target_class_name, defining_class,
                                          name, param.name)
             with_default == IF param.default # "-"
                             THEN param_str \o FormatDefaultValue(param.default)
                             ELSE param_str
         IN IF param.name = "self"
            THEN ParamLoop(name, parameters, i + 1, defining_class, target_class_name, acc)
            ELSE IF DefaultTestRaises(param.default)
            THEN [acc EXCEPT !.resolver = resolver, !.missing = missing, !.raised = TRUE]
            ELSE ParamLoop(name, parameters, i + 1, defining_class, target_class_name,
                    [params |-> IF acc.params = <<>> THEN with_default
                                ELSE acc.params \o <<", ">> \o with_default,
                     resolver |-> resolver, missing |-> missing, raised |-> FALSE])

\* name in VOID_METHODS (method.py line 72)
ReturnExempt(name) == name \in VOID_METHODS

\* MethodSignatureCreator.can_handle
MethodCanHandle(obj) == obj.kind = "function"

\* MethodSignatureCreator.create_signature
MethodCreateSignature(name, obj, defining_class, target_class_name, resolver, missing) ==
    LET loop == ParamLoop(name, obj.params, 1, defining_class, target_class_name,
                          [params |-> <<>>, resolver |-> resolver, missing |-> missing,
                           raised |-> FALSE])
        annotated == obj.ret # "-"
        tf == TrackAndFormat(loop.resolver, obj.ret)
        return_annotation == IF annotated THEN <<" -> ", tf.text>> ELSE <<>>
        missing_after == IF annotated \/ ReturnExempt(name) THEN loop.missing
                         ELSE Append(loop.missing,
                                 MissingAnnotation(target_class_name, ClassModule(defining_class),
                                                   name, "method_return",
                                                   "missing return type annotation"))
    IN IF loop.raised
       THEN Outcome("sig",
                SignatureInfo(name, "method",
                              <<"def ", name, "(self", ", ", "*args", ", ", "**kwargs", ")", ": ", "...">>,
                              NoneObj, "extraction error"),
                loop.resolver, loop.missing)
       ELSE Outcome("sig",
                SignatureInfo(name, "method",
                    <<"def ", name, "(self">>
                        \o (IF loop.params # <<>> THEN <<", ">> \o loop.params ELSE <<>>)
                        \o <<")">> \o return_annotation \o <<": ", "...">>,
                    IF annotated THEN obj.ret ELSE NoneObj, ""),
                IF annotated THEN tf.r ELSE loop.resolver, missing_after)

\* PropertySignatureCreator.can_handle
PropertyCanHandle(obj) == obj.kind = "property"

\* PropertySignatureCreator.create_signature
PropertyCreateSignature(name, obj, type_hints, resolver, missing) ==
    LET hinted == type_hints[name]
        from_getter == IF hinted \in {NoHint, NoneObj} /\ obj.ret # "-" THEN obj.ret ELSE hinted
        member_type == IF from_getter \in {NoHint, NoneObj} THEN AnyType ELSE from_getter
        tf == TrackAndFormat(resolver, member_type)
    IN Outcome("sig", SignatureInfo(name, "property", <<name, ": ", tf.text>>, member_type, ""),
               tf.r, missing)

\* the annotation text of the first self.<attribute_name> assignment of the
\* __init__ the class resolves to, or "-"
RECURSIVE InitAnnotationOf(_, _, _)
InitAnnotationOf(attrs, i, attribute_name) ==
    IF i > Len(attrs) THEN "-"
    ELSE IF attrs[i].name = attribute_name THEN attrs[i].annotation
    ELSE InitAnnotationOf(attrs, i + 1, attribute_name)

\* utils.ast.extract_init_type_annotations
ExtractInitTypeAnnotations(cls, attribute_name, loaded) ==
    IF InitOwner(cls) = "object" THEN NoneObj
    ELSE LET type_str == InitAnnotationOf(init_attrs[InitOwner(cls)], 1, attribute_name)
         IN IF type_str = "-" THEN NoneObj ELSE ResolveTypeString(type_str, cls, loaded)

\* SyntheticPropertySignatureCreator._get_class_specific_type_hints
GetClassSpecificTypeHints(cls, attribute_name, loaded) ==
    IF OwnAnnotations(cls)[attribute_name] # NoHint
    THEN IF GetTypeHintsRaises(cls) THEN OwnAnnotations(cls)[attribute_name]
         ELSE TypingGetTypeHints(cls)[attribute_name]
    ELSE ExtractInitTypeAnnotations(cls, attribute_name, loaded)

\* the modules _get_class_specific_type_hints loads, through
\* extract_init_type_annotations
GetClassSpecificTypeHintsLoads(cls, attribute_name) ==
    IF OwnAnnotations(cls)[attribute_name] # NoHint \/ InitOwner(cls) = "object" THEN {}
    ELSE ResolveTypeStringLoads(
             InitAnnotationOf(init_attrs[InitOwner(cls)], 1, attribute_name), cls)

\* SyntheticPropertySignatureCreator.can_handle; hasattr on a proxy raises
SyntheticCanHandle(obj) == obj.kind = "synthetic"

\* SyntheticPropertySignatureCreator.create_signature
SyntheticCreateSignature(name, obj, target_class, type_hints, loaded, resolver, missing) ==
    LET class_specific_hints == GetClassSpecificTypeHints(target_class, name, loaded)
        member_type ==
            IF class_specific_hints \notin {NoHint, NoneObj} THEN class_specific_hints
            ELSE IF obj.resolved_type \notin {NoHint, NoneObj} THEN obj.resolved_type
            ELSE IF type_hints[name] = NoHint THEN AnyType ELSE type_hints[name]
        tf == TrackAndFormat(resolver, member_type)
    IN Outcome("sig", SignatureInfo(name, "property", <<name, ": ", tf.text>>, member_type, ""),
               tf.r, missing)

\* VariableSignatureCreator.can_handle
VariableCanHandle(obj) == obj.kind = "value"

\* name.startswith('_abc_')
AbcPrefixed(name) == name = "_abc_k"

\* VariableSignatureCreator.create_signature
VariableCreateSignature(name, obj, defining_class, type_hints, resolver, missing) ==
    LET hinted == type_hints[name]
        own == OwnAnnotations(defining_class)[name]
        member_type ==
            IF hinted \notin {NoHint, NoneObj} THEN hinted
            ELSE IF own # NoHint THEN own
            ELSE IF obj.value_type \notin {"None", "NotImplemented"} THEN obj.value_type
            ELSE AnyType
        tf == TrackAndFormat(resolver, member_type)
        last_resort == hinted \in {NoHint, NoneObj} /\ own = NoHint
                       /\ obj.value_type \in {"None", "NotImplemented"}
    IN IF AbcPrefixed(name) THEN Outcome("none", NoSignature, resolver, missing)
       ELSE Outcome("sig",
                SignatureInfo(name, "class_variable",
                              <<name, ": ", IF last_resort THEN "Any" ELSE tf.text>>,
                              member_type, ""),
                IF last_resort THEN resolver ELSE tf.r, missing)

\* SignatureExtractor._create_signature: the first creator that can handle obj
CreateSignature(name, obj, defining_class, ctx, resolver, missing) ==
    IF MethodCanHandle(obj)
    THEN MethodCreateSignature(name, obj, defining_class, ctx.target_class_name, resolver, missing)
    ELSE IF PropertyCanHandle(obj)
    THEN PropertyCreateSignature(name, obj, ctx.type_hints, resolver, missing)
    ELSE IF obj.kind = "proxy" THEN Outcome("raise", NoSignature, resolver, missing)
    ELSE IF SyntheticCanHandle(obj)
    THEN SyntheticCreateSignature(name, obj, ctx.target_class, ctx.type_hints, ctx.loaded,
                                  resolver, missing)
    ELSE IF VariableCanHandle(obj)
    THEN VariableCreateSignature(name, obj, defining_class, ctx.type_hints, resolver, missing)
    ELSE Outcome("none", NoSignature, resolver, missing)


(***************************************************************************)
(* extract_class_signature.                                                *)
(***************************************************************************)
\* a plausible slip: the duplicate test is dropped
MutAlreadySeen(name, seen_names) == FALSE

\* name in seen_names (extractor.py line 111)
AlreadySeen(name, seen_names) == name \in seen_names

\* the context dictionary (extractor.py lines 73-79), with sys.modules as the
\* processing loop finds it
Context(cls, include_inherited) ==
    [type_hints |-> EffectiveTypeHints(cls, include_inherited),
     include_inherited |-> include_inherited,
     target_class |-> cls, target_class_name |-> cls,
     loaded |-> LoadedAfterHarvest(cls, include_inherited)]

\* the modules creating the signature of one member loads
CreateSignatureLoads(member, ctx) ==
    IF member.obj.kind = "synthetic"
    THEN GetClassSpecificTypeHintsLoads(ctx.target_class, member.name)
    ELSE {}

\* one pass of the processing loop for a candidate not yet seen: a created
\* signature gets its source_class and its name joins seen_names
\* (extractor.py lines 115-119)
KeepSignature(acc, member, made, loads) ==
    [signatures |-> IF made.status = "sig"
                    THEN Append(acc.signatures,
                                [made.sig EXCEPT !.source_class = member.cls])
                    ELSE acc.signatures,
     seen_names |-> IF made.status = "sig"
                    THEN acc.seen_names \cup {member.name}
                    ELSE acc.seen_names,
     resolver |-> made.resolver,
     missing |-> made.missing,
     loaded |-> acc.loaded \cup loads,
     raised |-> made.status = "raise"]

\* the processing loop (extractor.py lines 110-119)
RECURSIVE ProcessMembers(_, _, _, _)
ProcessMembers(members_to_process, i, ctx, acc) ==
    IF i > Len(members_to_process) \/ acc.raised THEN acc
    ELSE IF AlreadySeen(members_to_process[i].name, acc.seen_names)
         THEN ProcessMembers(members_to_process, i + 1, ctx, acc)
         ELSE ProcessMembers(members_to_process, i + 1, ctx,
                 KeepSignature(acc, members_to_process[i],
                     CreateSignature(members_to_process[i].name,
                                     members_to_process[i].obj,
                                     members_to_process[i].cls, ctx,
                                     acc.resolver, acc.missing),
                     CreateSignatureLoads(members_to_process[i], ctx)))

\* what extract_class_signature returns once the loop is over: the list, or
\* the empty list after an exception (extractor.py lines 121-127)
ReturnSignatures(done) ==
    [signatures |-> IF done.raised THEN <<>> ELSE done.signatures,
     raised |-> done.raised,
     resolver |-> done.resolver, missing |-> done.missing, loaded |-> done.loaded]

\* SignatureExtractor.extract_class_signature: the returned list, with the
\* resolver and the MissingAnnotation list as the call leaves them; an
\* exception anywhere returns the empty list
ExtractClassSignature(cls, include_inherited, resolver, missing) ==
    ReturnSignatures(
        ProcessMembers(MembersToProcess(cls, include_inherited), 1,
                       Context(cls, include_inherited),
                       [signatures |-> <<>>, seen_names |-> {},
                        resolver |-> resolver, missing |-> missing,
                        loaded |-> LoadedAfterHarvest(cls, include_inherited),
                        raised |-> FALSE]))


(***************************************************************************)
(* Import generation.  An import statement "from module import name" is    *)
(* the pair <<module, name>>; a bucket is a set of statements (the code    *)
(* sorts each bucket when it prints it).                                   *)
(***************************************************************************)
TYPING_CONSTRUCTS == {"Any", "Optional", "Union", "List", "Dict", "Type"}

\* the names _categorize_string_type skips as built-in
BuiltinTypeNames == {"str", "int", "float", "bool", "list", "dict", "tuple", "set", "None"}

\* the standard-library modules of _categorize_type_import (line 151)
StandardModules == {"collections", "collections.abc", "functools", "itertools",
                    "pathlib", "uuid", "logging"}

EmptyBuckets == [standard |-> {}, typing |-> {}, third_party |-> {}, type_checking |-> {}]

\* ImportGenerator._categorize_type_import for one tracked object
CategorizeTypeImport(type_obj, defined_classes, b) ==
    IF ~IsClassObject(type_obj) THEN b
    ELSE IF type_obj \in defined_classes THEN b
    ELSE IF IsExcludedModule(TypeModule(type_obj)) THEN b
    ELSE IF TypeModule(type_obj) = "builtins" THEN b
    ELSE IF TypeModule(type_obj) = "typing" THEN [b EXCEPT !.typing = @ \cup {type_obj}]
    ELSE IF TypeModule(type_obj) \in StandardModules
         THEN [b EXCEPT !.standard = @ \cup {<<TypeModule(type_obj), type_obj>>}]
    ELSE [b EXCEPT !.type_checking = @ \cup {<<TypeModule(type_obj), type_obj>>}]

\* ImportGenerator._categorize_forward_reference
CategorizeForwardReference(forward_ref, defined_classes, b) ==
    IF forward_ref[2] \in defined_classes THEN b
    ELSE IF IsExcludedModule(forward_ref[1]) THEN b
    ELSE [b EXCEPT !.type_checking = @ \cup {forward_ref}]

\* the modules outside the project that the process may have loaded: ext
\* defines E, ext.sub imports it, and the excluded dep defines K and imports E
DependencyModules == {"ext", "ext.sub", "dep"}

\* the class names hasattr and inspect.isclass find in a module
Exposes(module_name) ==
    CASE module_name \in Modules   -> {c \in Classes : ClassModule(c) = module_name}
      [] module_name = "ext"       -> {"E"}
      [] module_name = "ext.sub"   -> {"E"}
      [] module_name = "dep"       -> {"K", "E"}
      [] OTHER                     -> {}

\* the modules of sys.modules that _resolve_string_type_module does not skip
\* and that hold a class of that name
ExposingModules(type_name) ==
    {m \in Modules \cup sys_modules : type_name \in Exposes(m)}

\* candidates.sort(key=len, reverse=True); candidates[0]
LongestName(candidates) ==
    CHOOSE m \in candidates : \A n \in candidates : Len(m) >= Len(n)

\* ImportGenerator._resolve_string_type_module: the loaded module holding a
\* class of that name, None when there is none
ResolveStringTypeModule(type_name) ==
    IF {m \in ExposingModules(type_name) : ~IsExcludedModule(m)} # {}
    THEN LongestName({m \in ExposingModules(type_name) : ~IsExcludedModule(m)})
    ELSE IF {m \in ExposingModules(type_name) : IsExcludedModule(m)} # {}
    THEN LongestName({m \in ExposingModules(type_name) : IsExcludedModule(m)})
    ELSE NoneObj

\* ImportGenerator._categorize_string_type
CategorizeStringType(type_name, defined_classes, b) ==
    IF type_name \in BuiltinTypeNames THEN b
    ELSE IF type_name \in defined_classes THEN b
    ELSE IF type_name \in TYPING_CONSTRUCTS THEN [b EXCEPT !.typing = @ \cup {type_name}]
    ELSE IF ResolveStringTypeModule(type_name) = NoneObj THEN b
    ELSE IF IsExcludedModule(ResolveStringTypeModule(type_name)) THEN b
    ELSE [b EXCEPT !.type_checking = @ \cup {<<ResolveStringTypeModule(type_name), type_name>>}]

\* the loops of generate_imports fold one registry into the buckets; the
\* buckets are sets, so the order of the fold does not matter
RECURSIVE FoldRegistry(_, _, _, _)
FoldRegistry(kind, registry, defined_classes, b) ==
    IF registry = {} THEN b
    ELSE LET e == CHOOSE x \in registry : TRUE
             b1 == CASE kind = "used"    -> CategorizeTypeImport(e, defined_classes, b)
                     [] kind = "forward" -> CategorizeForwardReference(e, defined_classes, b)
                     [] OTHER            -> CategorizeStringType(e, defined_classes, b)
         IN FoldRegistry(kind, registry \ {e}, defined_classes, b1)

\* ImportGenerator._extract_typing_from_signatures: the lexemes of the
\* signature texts that TYPING_PATTERN matches
ExtractTypingFromSignatures(signatures) ==
    {w \in TYPING_CONSTRUCTS :
        \E i \in 1..Len(signatures) :
            \E j \in 1..Len(signatures[i].raw_signature) : signatures[i].raw_signature[j] = w}

\* ImportGenerator.generate_imports; no complex type expression is ever
\* registered over the type universe, so that registry adds nothing
GenerateImports(r, signatures, defined_classes) ==
    IF signatures = <<>> THEN EmptyBuckets
    ELSE LET b1 == FoldRegistry("used", r.used_types, defined_classes, EmptyBuckets)
             b2 == FoldRegistry("forward", r.forward_references, defined_classes, b1)
             b3 == FoldRegistry("string", r.string_type_references, defined_classes, b2)
         IN [b3 EXCEPT !.typing = @ \cup ExtractTypingFromSignatures(signatures)]

\* the modules whose imports utils.ast._should_skip_import_for_stub drops
\* (prefixes 'src.', '__main__', '.', and the runtime-only modules)
SkippedImportModules == {"logging", "sys", "os", "pathlib", "re", "json", "traceback",
                         "importlib", "src.pkg.iface", "__main__"}

ShouldSkipImportForStub(module_name) == module_name \in SkippedImportModules


(***************************************************************************)
(* Discovery, planning and the generation of one stub file.                *)
(***************************************************************************)
\* inspect.getmembers(module, inspect.isclass) keeping cls.__module__ == module_name
ModuleClasses(module_name) ==
    CASE module_name = "pkg.a"     -> <<"A", "B", "C", "D">>
      [] module_name = "pkg.iface" -> <<"I", "IB">>
      [] OTHER                     -> <<>>

\* what ClassIdentifier finds out about a class: how issubclass answers for
\* each configured base class and each configured mixin class ("subclass",
\* "unrelated", or "raises" for the TypeError a configured object that is no
\* class gives), whether the class is one of the configured base classes,
\* whether its name ends with Mixin, whether it subclasses ABC, whether it
\* has abstract methods, and whether its name holds Base, Abstract or ABC
Relationships(base_tests, is_base, mixin_tests, named_mixin, is_abc, abstract_methods, named_abstract) ==
    [base_tests |-> base_tests, is_base |-> is_base, mixin_tests |-> mixin_tests,
     named_mixin |-> named_mixin, is_abc |-> is_abc,
     abstract_methods |-> abstract_methods, named_abstract |-> named_abstract]

\* ClassIdentifier.is_mixin_class
IsMixinClass(rel) ==
    \/ \E i \in DOMAIN rel.mixin_tests : rel.mixin_tests[i] = "subclass"
    \/ rel.named_mixin

\* ClassIdentifier.is_target_class, of the relationships of a class
IsTarget(rel) ==
    \/ \E i \in DOMAIN rel.base_tests : rel.base_tests[i] = "subclass"
    \/ IsMixinClass(rel)

\* ClassIdentifier._is_base_class
IsBaseClass(rel) == rel.is_base

\* ClassIdentifier.is_abstract_class
IsAbstractClass(rel) == rel.is_abc \/ rel.abstract_methods \/ rel.named_abstract

\* a plausible slip: the identity test comes before the mixin test
MutCategoryBaseFirst(rel) ==
    IF IsBaseClass(rel) THEN "base"
    ELSE IF IsMixinClass(rel) THEN "mixin"
    ELSE IF IsAbstractClass(rel) THEN "abstract"
    ELSE "concrete"

\* ClassIdentifier.get_class_category, of the relationships of a class
ClassCategory(rel) ==
    IF IsMixinClass(rel) THEN "mixin"
    ELSE IF IsBaseClass(rel) THEN "base"
    ELSE IF IsAbstractClass(rel) THEN "abstract"
    ELSE "concrete"

\* the category discover_modules gives a class (discovery.py lines 152-157)
CategoryOf(rel) == IF IsTarget(rel) THEN ClassCategory(rel) ELSE "standard"

\* the relationships of a class of the universe, none of which is a mixin
\* or abstract: the configured classes are classes of the universe
RelationshipsOf(cls) ==
    Relationships([b \in base_classes |->
                      IF b \in SeqToSet(Mro(cls)) THEN "subclass" ELSE "unrelated"],
                  cls \in base_classes, <<>>, FALSE, FALSE, FALSE, FALSE)

\* ClassIdentifier.is_target_class
IsTargetClass(cls) == IsTarget(RelationshipsOf(cls))

\* ClassIdentifier.get_class_category
GetClassCategory(cls) == ClassCategory(RelationshipsOf(cls))

\* discovery.ClassInfo as discover_modules builds it
ClassInfo(cls) ==
    [name |-> cls, module_path |-> ClassModule(cls), class_obj |-> cls,
     category |-> IF IsTargetClass(cls) THEN GetClassCategory(cls) ELSE "standard"]

ClassInfos(module_name) ==
    [i \in 1..Len(ModuleClasses(module_name)) |-> ClassInfo(ModuleClasses(module_name)[i])]

RECURSIVE Concat(_, _)
Concat(seqs, i) == IF i > Len(seqs) THEN <<>> ELSE seqs[i] \o Concat(seqs, i + 1)

\* ProjectDiscovery.discover_modules
DiscoverModules ==
    [i \in 1..Len(project_modules) |->
        [module_path |-> project_modules[i], class_infos |-> ClassInfos(project_modules[i])]]

\* StubPlanner.plan_stub_files: one unit per module, or one per top-level
\* package (every module of the universe lies in the package pkg)
PlanStubFiles(classes_by_module) ==
    IF stub_style \in {"inline", "module"}
    THEN [i \in 1..Len(classes_by_module) |->
            [path |-> classes_by_module[i].module_path,
             class_infos |-> classes_by_module[i].class_infos]]
    ELSE IF classes_by_module = <<>> THEN <<>>
    ELSE << [path |-> "pkg",
             class_infos |-> Concat([i \in 1..Len(classes_by_module) |->
                                        classes_by_module[i].class_infos], 1)] >>

StubPlan == PlanStubFiles(DiscoverModules)

\* the "# From <source>" groups of _build_class_with_signatures, in order of
\* first appearance
RECURSIVE SourcesInOrder(_, _, _)
SourcesInOrder(signatures, i, sources) ==
    IF i > Len(signatures) THEN sources
    ELSE SourcesInOrder(signatures, i + 1,
            IF signatures[i].source_class \in SeqToSet(sources) THEN sources
            ELSE Append(sources, signatures[i].source_class))

RECURSIVE GroupLines(_, _, _)
GroupLines(signatures, sources, i) ==
    IF i > Len(sources) THEN <<>>
    ELSE LET of_source == SelectSeq(signatures, LAMBDA sig : sig.source_class = sources[i])
         IN << <<"# From ", sources[i]>> >>
            \o [j \in 1..Len(of_source) |-> of_source[j].raw_signature]
            \o GroupLines(signatures, sources, i + 1)

\* StubContentGenerator._build_class_with_signatures: the lines of the class
BuildClassWithSignatures(class_name, signatures) ==
    << <<"class ", class_name, ":">> >>
    \o GroupLines(signatures, SourcesInOrder(signatures, 1, <<>>), 1)

\* a plausible slip: the class line is emitted whatever the list holds
MutAlwaysBuildClass(class_info, include_inherited, r, missing) ==
    LET ex == ExtractClassSignature(class_info.class_obj, include_inherited, r, missing)
    IN [content |-> BuildClassWithSignatures(class_info.name, ex.signatures),
        signatures |-> ex.signatures, resolver |-> ex.resolver, missing |-> ex.missing,
        loaded |-> ex.loaded]

\* StubContentGenerator.generate_class_content
GenerateClassContent(class_info, include_inherited, r, missing) ==
    LET ex == ExtractClassSignature(class_info.class_obj, include_inherited, r, missing)
    IN [content |-> IF ex.signatures # <<>>
                    THEN BuildClassWithSignatures(class_info.name, ex.signatures)
                    ELSE << <<"class ", class_info.name, ":">>, <<"pass">> >>,
        signatures |-> ex.signatures, resolver |-> ex.resolver, missing |-> ex.missing,
        loaded |-> ex.loaded]

\* utils.ast.extract_module_imports: the absolute from-imports of the source
\* that _should_skip_import_for_stub lets through
ExtractModuleImports(module_name) ==
    SelectSeq(source_imports[module_name], LAMBDA imp : ~ShouldSkipImportForStub(imp[1]))

\* StubImportGenerator._extract_module_imports
StubExtractModuleImports(class_infos) ==
    IF class_infos = <<>> THEN <<>> ELSE ExtractModuleImports(class_infos[1].module_path)

\* defined_class_names of generate_imports_for_stub (generate.py line 124)
DefinedClassNames(class_infos) == {class_infos[i].name : i \in 1..Len(class_infos)}

\* StubImportGenerator.generate_imports_for_stub: the source module's imports
\* followed by the imports made from the signatures
GenerateImportsForStub(class_infos, signatures, r) ==
    [module_imports |-> StubExtractModuleImports(class_infos),
     signature_imports |-> GenerateImports(r, signatures, DefinedClassNames(class_infos))]

\* the lexemes ast.parse rejects where they stand
UnparsableLexemes == {"\"a\"b\""}

\* StubValidator.validate_stub_content: the text parses, every def line ends
\* with the ellipsis and every class line holds a colon
ValidateStubContent(contents) ==
    \A i \in 1..Len(contents) : \A j \in 1..Len(contents[i]) :
        LET line == contents[i][j]
        IN /\ \A k \in 1..Len(line) : line[k] \notin UnparsableLexemes
           /\ line[1] = "def " => line[Len(line)] = "..."
           /\ line[1] = "class " => \E k \in 1..Len(line) : line[k] = ":"


(***************************************************************************)
(* The inspected code base is built from a bounded list of facts: a class  *)
(* declares a member, annotates a name, or assigns an annotated attribute  *)
(* in its constructor.                                                     *)
(***************************************************************************)
Fact(kind, cls, name, obj, value) ==
    [kind |-> kind, cls |-> cls, name |-> name, obj |-> obj, value |-> value]

NoFact == Fact("none", "-", "-", NoMember, "-")

\* the first fact of the list about a member or an annotation of cls.name
FirstFact(fs, cls, name, wanted) ==
    LET I == {i \in 1..Len(fs) :
                /\ fs[i].kind = "member" /\ fs[i].cls = cls /\ fs[i].name = name
                /\ IF wanted = "obj" THEN fs[i].obj.kind # "-" ELSE fs[i].value # "-"}
    IN IF I = {} THEN NoFact ELSE fs[CHOOSE i \in I : \A j \in I : i <= j]

InitAttrsOf(fs) ==
    [c \in Classes |->
        LET sel == SelectSeq(fs, LAMBDA f : f.kind = "init" /\ f.cls = c)
        IN [i \in 1..Len(sel) |-> [name |-> sel[i].name, annotation |-> sel[i].value]]]

AnnotationsOf(fs) ==
    [c \in Classes |-> [n \in Names |-> FirstFact(fs, c, n, "value").value]]

SelfParam == [name |-> "self", annotation |-> "-", default |-> "-"]

\* a class whose constructor assigns attributes declares __init__
DeclaredOf(fs) ==
    [c \in Classes |-> [n \in Names |->
        IF n = "__doc__" THEN Value("str")
        ELSE IF FirstFact(fs, c, n, "obj") # NoFact THEN FirstFact(fs, c, n, "obj").obj
        ELSE IF n = "__init__" /\ InitAttrsOf(fs)[c] # <<>> THEN Function(<<SelfParam>>, "-")
        ELSE NoMember]]

\* whether the module of A..D declares a TypeVar bounded by I, and whether
\* B (and D, which finds B's __orig_bases__) is Generic over it
BoundChoices == {<< <<>>, <<>> >>, << <<"I">>, <<>> >>, << <<>>, <<"I">> >>, << <<"I">>, <<"I">> >>}

ModuleTypevarsOf(choice) == [m \in Modules |-> IF m = "pkg.a" THEN choice[1] ELSE <<>>]

OrigBasesOf(choice) == [c \in Classes |-> IF c \in {"B", "D"} THEN choice[2] ELSE <<>>]

\* what time.time() gives when the process starts: seconds since the epoch,
\* beyond any debounce time
StartTime == 10

\* no project is configured and no run is under way
NoProject ==
    /\ base_classes = {}
    /\ stub_style = "module"
    /\ project_modules = <<>>
    /\ source_imports = [m \in Modules |-> <<>>]
    /\ type_checking = [m \in Modules |-> {}]
    /\ unwritable = {}

NoRun ==
    /\ unit_idx = 0 /\ class_idx = 0
    /\ type_resolver = EmptyResolver
    /\ missing_annotations = <<>>
    /\ all_signatures = <<>> /\ class_contents = <<>>
    /\ stub_files = <<>>
    /\ success_count = 0 /\ validation_errors = 0
    /\ report = <<>> /\ returned = "-"
    /\ produced = <<>> /\ unit_resolver = EmptyResolver /\ headers = <<>>
    /\ run_count = 0 /\ previous_files = <<>>
    /\ sys_modules = {}
    /\ now = StartTime /\ last_regeneration = 0 /\ run_starts = <<>>
    /\ handler_pc = "idle" /\ events = <<>>

Idle == [op |-> "-"]

(***************************************************************************)
(* Operations applied directly, on a fresh SignatureExtractor.             *)
(***************************************************************************)
\* SignatureExtractor._get_type_hints(cls, include_inherited)
ApplyGetTypeHints ==
    /\ pc = "direct"
    /\ \E cls \in Classes, include_inherited \in BOOLEAN :
          result' = [op |-> "_get_type_hints", cls |-> cls,
                     include_inherited |-> include_inherited,
                     type_hints |-> GetTypeHints(cls, include_inherited)]
    /\ pc' = "returned"
    /\ UNCHANGED <<world, watcher, run, sys_modules>>

\* the record of one direct call of extract_class_signature: what it
\* returned, with the context's type_hints and the merged candidate list
ExtractResult(cls, include_inherited, type_hints, members_to_process, ex) ==
    [op |-> "extract_class_signature", cls |-> cls,
     include_inherited |-> include_inherited,
     type_hints |-> type_hints,
     members_to_process |-> members_to_process,
     signatures |-> ex.signatures, raised |-> ex.raised,
     missing_annotations |-> ex.missing]

\* SignatureExtractor.extract_class_signature(cls, include_inherited)
ApplyExtractClassSignature ==
    /\ pc = "direct"
    /\ \E cls \in Classes, include_inherited \in BOOLEAN :
          /\ result' = ExtractResult(cls, include_inherited,
                           EffectiveTypeHints(cls, include_inherited),
                           MembersToProcess(cls, include_inherited),
                           ExtractClassSignature(cls, include_inherited,
                                                 EmptyResolver, <<>>))
          /\ sys_modules' = LoadedAfterHarvest(cls, include_inherited)
    /\ pc' = "returned"
    /\ UNCHANGED <<world, watcher, run>>

\* the bare names a string type reference may hold: a built-in primitive, a
\* typing construct, project classes, classes of the dependencies, nothing
StringNames == {"int", "Any", "A", "I", "E", "K", "Unknown"}

\* the process imports a module from outside the project
LoadModule ==
    /\ pc = "direct"
    /\ \E m \in DependencyModules \ sys_modules : sys_modules' = sys_modules \cup {m}
    /\ UNCHANGED <<world, watcher, run, result, pc>>

\* ImportGenerator._categorize_string_type(type_name, ...) on empty buckets
ApplyCategorizeStringType ==
    /\ pc = "direct"
    /\ \E type_name \in StringNames, defined_classes \in {{}, {"A"}, {"E"}} :
          result' = [op |-> "_categorize_string_type", type_name |-> type_name,
                     defined_classes |-> defined_classes,
                     buckets |-> CategorizeStringType(type_name, defined_classes, EmptyBuckets)]
    /\ pc' = "returned"
    /\ UNCHANGED <<world, watcher, run, sys_modules>>

\* StandardMemberProcessor._get_typevar_bounds(cls)
ApplyGetTypevarBounds ==
    /\ pc = "direct"
    /\ \E cls \in Classes :
          result' = [op |-> "_get_typevar_bounds", cls |-> cls, bounds |-> GetTypevarBounds(cls)]
    /\ pc' = "returned"
    /\ UNCHANGED <<world, watcher, run, sys_modules>>

\* StandardMemberProcessor.get_members(cls, include_inherited, context)
ApplyGetMembers ==
    /\ pc = "direct"
    /\ \E cls \in Classes, include_inherited \in BOOLEAN :
          result' = [op |-> "get_members", cls |-> cls,
                     include_inherited |-> include_inherited,
                     members |-> StandardGetMembers(cls, include_inherited)]
    /\ pc' = "returned"
    /\ UNCHANGED <<world, watcher, run, sys_modules>>

\* the record of one direct call of generate_class_content: the pair it
\* returned, with what extract_class_signature returned to it
ContentResult(class_info, include_inherited, made, ex) ==
    [op |-> "generate_class_content", class_info |-> class_info,
     include_inherited |-> include_inherited,
     content |-> made.content, signatures |-> made.signatures,
     extracted |-> ex.signatures, raised |-> ex.raised]

\* StubContentGenerator.generate_class_content(class_info, include_inherited),
\* on a fresh extractor
ApplyGenerateClassContent ==
    /\ pc = "direct"
    /\ \E cls \in Classes, include_inherited \in BOOLEAN :
          /\ result' = ContentResult(ClassInfo(cls), include_inherited,
                           GenerateClassContent(ClassInfo(cls), include_inherited,
                                                EmptyResolver, <<>>),
                           ExtractClassSignature(cls, include_inherited, EmptyResolver, <<>>))
          /\ sys_modules' = LoadedAfterHarvest(cls, include_inherited)
    /\ pc' = "returned"
    /\ UNCHANGED <<world, watcher, run>>

\* the longest list of configured base classes, and of configured mixin classes
MaxConfigured == 2

\* the answers of issubclass against a list of configured classes
TestLists == UNION {[1..n -> {"subclass", "unrelated", "raises"}] : n \in 0..MaxConfigured}

\* the relationships a class can have: a class that is one of the configured
\* base classes is tested against itself, and a subclass of ABC or a class
\* with abstract methods is no configured object that is no class
ClassRelationships ==
    {Relationships(bt, ib, mt, nm, abc, am, na) :
        bt \in TestLists, ib \in BOOLEAN, mt \in TestLists,
        nm \in BOOLEAN, abc \in BOOLEAN, am \in BOOLEAN, na \in BOOLEAN}

\* is_target_class and get_class_category as discover_modules calls them
\* for one class (discovery.py lines 152-157)
ApplyClassify ==
    /\ pc = "direct"
    /\ \E rel \in ClassRelationships :
          /\ rel.is_base => \E i \in DOMAIN rel.base_tests : rel.base_tests[i] # "unrelated"
          /\ result' = [op |-> "classify", rel |-> rel, is_target |-> IsTarget(rel),
                        category |-> CategoryOf(rel)]
    /\ pc' = "returned"
    /\ UNCHANGED <<world, watcher, run, sys_modules>>

\* the longest argument list of a parameterized annotation
MaxArgs == 3

\* what an argument of a parameterized annotation may be
ArgTypes == {"int", "A", NoneType, Unres}

\* the argument lists typing builds: no argument twice, and a union has two
\* members at least
ArgLists(origin) ==
    {args \in UNION {[1..n -> ArgTypes] : n \in 1..MaxArgs} :
        /\ \A i, j \in 1..Len(args) : i # j => args[i] # args[j]
        /\ origin \in {"Union", "UnionType"} => Len(args) >= 2}

\* TypeResolver.format_type(annotation) for a parameterized annotation, on a
\* fresh resolver (type_resolver.py lines 79-83)
ApplyFormatType ==
    /\ pc = "direct"
    /\ \E origin \in {"list", "Union", "UnionType"} :
          \E args \in ArgLists(origin) :
              result' = [op |-> "format_type", annotation |-> Generic(origin, args),
                         text |-> FormatGenericType(EmptyResolver, Generic(origin, args))]
    /\ pc' = "returned"
    /\ UNCHANGED <<world, watcher, run, sys_modules>>

\* track_type then format_type of a plain dotted string, on a fresh resolver,
\* as every creator calls them
ApplyTrackAndFormat ==
    /\ pc = "direct"
    /\ \E parts \in DottedParts :
          LET t == AsString(JoinDots(parts, 1))
              made == TrackAndFormat(EmptyResolver, t)
          IN result' = [op |-> "track_and_format", annotation |-> t, parts |-> parts,
                        text |-> made.text, r |-> made.r]
    /\ pc' = "returned"
    /\ UNCHANGED <<world, watcher, run, sys_modules>>

(***************************************************************************)
(* Specification of the hint maps: classes annotate names.                 *)
(***************************************************************************)
MaxAnnotated == 3

HintFacts ==
    {NoFact}
    \cup {Fact("member", c, "x", NoMember, v) :
            c \in {"A", "C", "D"}, v \in {"int", "str", Unres}}
    \cup {Fact("member", c, "m", NoMember, v) :
            c \in {"B", "I"}, v \in {"int", "str", NoneObj, AnyType}}

InitHints ==
    /\ \E fs \in [1..MaxAnnotated -> HintFacts], choice \in BoundChoices :
          /\ annotations = AnnotationsOf(fs)
          /\ declared = DeclaredOf(fs)
          /\ init_attrs = InitAttrsOf(fs)
          /\ module_typevars = ModuleTypevarsOf(choice)
          /\ orig_bases = OrigBasesOf(choice)
    /\ NoProject /\ NoRun
    /\ pc = "direct"
    /\ result = Idle

NextHints == ApplyGetTypeHints \/ ApplyExtractClassSignature

SpecHints == InitHints /\ [][NextHints]_vars


\* the annotation of the first class of the order that annotates the name
RECURSIVE NearestAnnotation(_, _, _)
NearestAnnotation(order, i, name) ==
    IF i > Len(order) THEN NoHint
    ELSE IF OwnAnnotations(order[i])[name] # NoHint THEN OwnAnnotations(order[i])[name]
    ELSE NearestAnnotation(order, i + 1, name)

\* C2: with inheritance requested, the hint _get_type_hints returns for an
\* annotated name is the annotation (as written, or as typing resolves it) of
\* the nearest class that annotates it: the class itself first, then its
\* ancestors from nearest to farthest, the universal root excluded.
C2_NearestAnnotationWins ==
    (result.op = "_get_type_hints" /\ result.include_inherited) =>
        \A n \in Names :
            LET nearest == NearestAnnotation(<<result.cls>> \o Ancestors(result.cls), 1, n)
            IN nearest # NoHint =>
                  result.type_hints[n] \in {nearest, ResolveAnnotation(nearest)}

\* C3: merging the hints of the generic bounds changes the effective hint of
\* a name only if the hint was missing or the placeholder Any, and a name that
\* only a bound annotates takes the bound's hint.
C3_BoundsOnlyFillGaps ==
    (/\ result.op = "extract_class_signature" /\ result.include_inherited
     /\ GetTypevarBounds(result.cls) # <<>>) =>
        \A n \in Names :
            LET before == GetTypeHints(result.cls, TRUE)[n]
                bound_hint == GetTypeHints(GetTypevarBounds(result.cls)[1], TRUE)[n]
            IN /\ result.type_hints[n] \notin {before, ResolveAnnotation(before)}
                     => before \in {NoHint, AnyType}
               /\ (before = NoHint /\ bound_hint # NoHint) => result.type_hints[n] = bound_hint


(***************************************************************************)
(* Specification of the member merge: classes declare members and assign   *)
(* constructor attributes; B may be generic over a variable bounded by I.  *)
(***************************************************************************)
MaxFacts == 2

ExtractFacts ==
    {NoFact}
    \cup {Fact("member", c, "k", obj, "-") :
            c \in {"A", "B", "I"},
            obj \in {Function(<<SelfParam>>, "int"), Value("int"), NestedClass, Proxy}}
    \cup {Fact("member", c, "x", Property("int"), "-") : c \in {"B", "I"}}
    \cup {Fact("init", c, "k", NoMember, v) : c \in {"A", "B", "I"}, v \in {"int", "Unknown"}}
    \cup {Fact("init", "B", "x", NoMember, "int")}

ExtractBoundChoices == {<< <<>>, <<>> >>, << <<"I">>, <<>> >>, << <<"I">>, <<"I">> >>}

InitExtract ==
    /\ \E fs \in [1..MaxFacts -> ExtractFacts], choice \in ExtractBoundChoices :
          /\ annotations = AnnotationsOf(fs)
          /\ declared = DeclaredOf(fs)
          /\ init_attrs = InitAttrsOf(fs)
          /\ module_typevars = ModuleTypevarsOf(choice)
          /\ orig_bases = OrigBasesOf(choice)
    /\ NoProject /\ NoRun
    /\ pc = "direct"
    /\ result = Idle

NextExtract == ApplyExtractClassSignature

SpecExtract == InitExtract /\ [][NextExtract]_vars

\* whether a signature is created from the candidate in the extraction the result is of
Produces(member) ==
    CreateSignature(member.name, member.obj, member.cls,
                    Context(result.cls, result.include_inherited),
                    EmptyResolver, <<>>).status = "sig"

\* the positions of the candidates of a name that produce a signature
Producers(name) ==
    {j \in 1..Len(result.members_to_process) :
        result.members_to_process[j].name = name /\ Produces(result.members_to_process[j])}

FirstOf(I) == CHOOSE i \in I : \A j \in I : i <= j

\* the positions of the returned signatures of a name
Emitted(name) == {i \in 1..Len(result.signatures) : result.signatures[i].name = name}

\* C1: the returned list holds each member name at most once, and the
\* signature kept for a name is the one created from the first candidate of
\* that name, in the merged order, that produced a signature.
C1_EachNameOnceFirstProducerKept ==
    result.op = "extract_class_signature" =>
        \A i \in 1..Len(result.signatures) :
            LET sig == result.signatures[i]
                first == result.members_to_process[FirstOf(Producers(sig.name))]
            IN /\ Emitted(sig.name) = {i}
               /\ Producers(sig.name) # {}
               /\ sig.source_class = first.cls
               /\ sig.raw_signature =
                     CreateSignature(first.name, first.obj, first.cls,
                                     Context(result.cls, result.include_inherited),
                                     EmptyResolver, <<>>).sig.raw_signature

\* C1's case: two candidates of one name both produce a signature, of
\* different classes, and the name is returned
C1_Witness ==
    /\ result.op = "extract_class_signature"
    /\ \E name \in Names :
          /\ Emitted(name) # {}
          /\ \E j1, j2 \in Producers(name) :
                result.members_to_process[j1].cls # result.members_to_process[j2].cls


\* the positions of the candidates of a name the declared-member walk yielded
\* and of those the constructor-attribute harvest yielded
Walked(name) ==
    {j \in 1..Len(result.members_to_process) :
        /\ result.members_to_process[j].name = name
        /\ result.members_to_process[j].obj.kind # "synthetic"}

Harvested(name) ==
    {j \in 1..Len(result.members_to_process) :
        /\ result.members_to_process[j].name = name
        /\ result.members_to_process[j].obj.kind = "synthetic"}

Candidates(name) == Walked(name) \cup Harvested(name)

FromBound(j) ==
    result.members_to_process[j].cls \in SeqToSet(GetTypevarBounds(result.cls))

FromClassOrAncestor(j) ==
    /\ ~FromBound(j)
    /\ result.members_to_process[j].cls \in {result.cls} \cup SeqToSet(Ancestors(result.cls))

\* C5 as stated: every member a bound contributes, declared or harvested from
\* its constructor, stands before every same-named member of the class and
\* its ancestors, and the bound's member is the one returned on a tie.
C5_AsStated ==
    (result.op = "extract_class_signature" /\ result.include_inherited) =>
        \A name \in Names :
            \A b \in Candidates(name), c \in Candidates(name) :
                (FromBound(b) /\ FromClassOrAncestor(c)) =>
                    /\ b < c
                    /\ \A i \in Emitted(name) : FromBound(FirstOf(Producers(name)))
                    /\ ~result.raised => Emitted(name) # {}

\* C5: a declared member of a bound stands before every same-named member of
\* the class and its ancestors, and is the one returned on a tie whenever a
\* signature is created from it; the constructor attributes of a bound stand
\* after every candidate of the class and its ancestors, so they are returned
\* only for names no earlier candidate produced a signature for.
C5_BoundDeclaredFirstHarvestLast ==
    (result.op = "extract_class_signature" /\ result.include_inherited) =>
        \A name \in Names :
            \A b \in Candidates(name) : FromBound(b) =>
                /\ \A c \in Walked(name) \cup Harvested(name) :
                      FromClassOrAncestor(c) => (b < c <=> b \in Walked(name))
                /\ \A n2 \in Names : \A c \in Candidates(n2) :
                      (b \in Harvested(name) /\ FromClassOrAncestor(c)) => c < b
                /\ (b \in Walked(name) /\ b \in Producers(name)) =>
                      \A i \in Emitted(name) :
                          /\ result.signatures[i].source_class = result.members_to_process[b].cls
                          /\ FirstOf(Producers(name)) = b

\* C5's case: a declared member of a bound and a member of the class tie, and
\* the bound's is returned
C5_Witness ==
    /\ result.op = "extract_class_signature" /\ result.include_inherited
    /\ \E name \in Names :
          \E b \in Walked(name) \cap Producers(name), c \in Producers(name) :
              /\ FromBound(b) /\ FromClassOrAncestor(c)
              /\ \E i \in Emitted(name) :
                    result.signatures[i].source_class = result.members_to_process[b].cls


\* C19 as stated: a class stubbed without its inherited members gets only
\* members declared on the class itself: every returned signature names a
\* member of the class's own namespace or an attribute assigned in a
\* constructor defined in the class's own body.
C19_AsStated ==
    (result.op = "extract_class_signature" /\ ~result.include_inherited) =>
        \A i \in 1..Len(result.signatures) :
            \/ ClassDict(result.cls)[result.signatures[i].name].kind # "-"
            \/ \E k \in 1..Len(init_attrs[result.cls]) :
                  init_attrs[result.cls][k].name = result.signatures[i].name

\* the kinds of member object a signature creator answers for: a function, a
\* property, a synthetic property, a variable, or an object on which the
\* creators' tests raise
CreatorKinds == {"function", "property", "synthetic", "value", "proxy"}

\* C14 as stated: whatever raises while the signature of one member is made,
\* every member of the class that a creator answers for is in the returned
\* list (the one that raised as a placeholder).
C14_AsStated ==
    result.op = "extract_class_signature" =>
        \A j \in 1..Len(result.members_to_process) :
            (/\ result.members_to_process[j].obj.kind \in CreatorKinds
             /\ ~AbcPrefixed(result.members_to_process[j].name))
                => Emitted(result.members_to_process[j].name) # {}

(***************************************************************************)
(* Specification of the method signatures: class A declares one method,    *)
(* with up to MaxParams parameters after self.                             *)
(***************************************************************************)
MaxParams == 2

NoParam == Param("-", "-", "-")

ParamOptions ==
    {NoParam}
    \cup {Param(n, a, d) : n \in {"n", "p"}, a \in {"-", "int"}, d \in {"-", "int:1", "ambiguous"}}
    \cup {Param("args", a, "-") : a \in {"-", "int"}}

\* the parameter lists Python accepts: no name twice
DistinctNames(ps) == \A i, j \in 1..Len(ps) : i # j => ps[i].name # ps[j].name

InitMethod ==
    /\ \E draw \in [1..MaxParams -> ParamOptions], name \in {"k", "__init__"}, ret \in {"-", "int"} :
          LET ps == SelectSeq(draw, LAMBDA q : q # NoParam)
              fs == <<Fact("member", "A", name, Function(<<SelfParam>> \o ps, ret), "-")>>
          IN /\ DistinctNames(ps)
             /\ annotations = AnnotationsOf(fs)
             /\ declared = DeclaredOf(fs)
             /\ init_attrs = InitAttrsOf(fs)
    /\ module_typevars = ModuleTypevarsOf(<< <<>>, <<>> >>)
    /\ orig_bases = OrigBasesOf(<< <<>>, <<>> >>)
    /\ NoProject /\ NoRun
    /\ pc = "direct"
    /\ result = Idle

NextMethod == ApplyExtractClassSignature

SpecMethod == InitMethod /\ [][NextMethod]_vars

\* the methods the result's extraction created a signature from: the first
\* candidates of their names
Methods ==
    {j \in 1..Len(result.members_to_process) :
        /\ result.members_to_process[j].obj.kind = "function"
        /\ j = FirstOf(Candidates(result.members_to_process[j].name))}

\* whether the text holds the lexemes of sub, adjacent and in order
Contains(text, sub) ==
    \E k \in 0..(Len(text) - Len(sub)) : \A i \in 1..Len(sub) : text[k + i] = sub[i]

\* the records of one kind and member name the extraction appended
Records(member_type, member_name) ==
    {r \in 1..Len(result.missing_annotations) :
        /\ result.missing_annotations[r].member_type = member_type
        /\ result.missing_annotations[r].member_name = member_name}

\* the parameters after self
ParamsOf(j) == SelectSeq(result.members_to_process[j].obj.params, LAMBDA q : q.name # "self")

SignatureOf(j) == result.signatures[FirstOf(Emitted(result.members_to_process[j].name))]

\* what C6 says of one parameter of one method
ParamAsStated(j, q) ==
    LET name == result.members_to_process[j].name
    IN /\ Emitted(name) # {}
       /\ q.annotation = "-" =>
             /\ Contains(SignatureOf(j).raw_signature, <<q.name, ": ", "Any">>)
             /\ Cardinality(Records("method_parameter", name \o "." \o q.name)) = 1
       /\ q.annotation # "-" => Records("method_parameter", name \o "." \o q.name) = {}

\* C6 as stated: a method with an unannotated parameter is still returned,
\* the parameter reads "name: Any" and exactly one method_parameter record
\* named <method>.<parameter> is appended; an annotated parameter appends none.
C6_AsStated ==
    result.op = "extract_class_signature" =>
        \A j \in Methods : \A i \in 1..Len(ParamsOf(j)) : ParamAsStated(j, ParamsOf(j)[i])

\* what C7 says of the return annotation of one method
ReturnAsStated(j) ==
    LET name == result.members_to_process[j].name
        ret == result.members_to_process[j].obj.ret
    IN /\ (ret = "-" /\ name \notin {"__init__", "__del__", "__enter__", "__exit__"}) =>
             /\ \A k \in 1..Len(SignatureOf(j).raw_signature) : SignatureOf(j).raw_signature[k] # " -> "
             /\ Cardinality(Records("method_return", name)) = 1
       /\ (ret = "-" /\ name \in {"__init__", "__del__", "__enter__", "__exit__"}) =>
             /\ \A k \in 1..Len(SignatureOf(j).raw_signature) : SignatureOf(j).raw_signature[k] # " -> "
             /\ Records("method_return", name) = {}
       /\ ret # "-" =>
             /\ Contains(SignatureOf(j).raw_signature, <<")", " -> ", ret, ": ", "...">>)
             /\ Records("method_return", name) = {}

\* C7 as stated: an unannotated return is left out of the declaration, with
\* exactly one method_return record unless the method is a lifecycle method;
\* an annotated return is rendered and has no record.
C7_AsStated ==
    result.op = "extract_class_signature" =>
        \A j \in Methods : Emitted(result.members_to_process[j].name) # {} /\ ReturnAsStated(j)


(***************************************************************************)
(* Specification of the rendering: class A declares one method whose       *)
(* parameters may have string defaults, and may declare a variable and a   *)
(* property.                                                               *)
(***************************************************************************)
RenderOptions ==
    {NoParam}
    \cup {Param(n, a, d) : n \in {"n", "p"}, a \in {"-", "int"},
                           d \in {"-", "None", "int:1", "str:a", "str:a\"b", "ambiguous"}}
    \cup {Param("args", "-", "-"), Param("kwargs", "-", "-")}

\* the members A may declare besides its method
RenderMembers ==
    {<<>>,
     <<Fact("member", "A", "x", Value("int"), "int")>>,
     <<Fact("member", "A", "x", Value("int"), "-")>>,
     <<Fact("member", "A", "m", Property("int"), "-")>>,
     <<Fact("member", "A", "m", Property("-"), "'Unknown'")>>}

InitRender ==
    /\ \E draw \in [1..MaxParams -> RenderOptions], ret \in {"-", "int"}, others \in RenderMembers :
          LET ps == SelectSeq(draw, LAMBDA q : q # NoParam)
              fs == <<Fact("member", "A", "k", Function(<<SelfParam>> \o ps, ret), "-")>> \o others
          IN /\ DistinctNames(ps)
             /\ annotations = AnnotationsOf(fs)
             /\ declared = DeclaredOf(fs)
             /\ init_attrs = InitAttrsOf(fs)
    /\ module_typevars = ModuleTypevarsOf(<< <<>>, <<>> >>)
    /\ orig_bases = OrigBasesOf(<< <<>>, <<>> >>)
    /\ NoProject /\ NoRun
    /\ pc = "direct"
    /\ result = Idle

NextRender == ApplyExtractClassSignature

SpecRender == InitRender /\ [][NextRender]_vars

\* whether a declaration parses as a statement of a class body: a method
\* line runs from def to the ellipsis, any other line reads name: Type, and
\* no lexeme is one the parser rejects
ParsesAsDeclaration(sig) ==
    /\ \A k \in 1..Len(sig.raw_signature) : sig.raw_signature[k] \notin UnparsableLexemes
    /\ IF sig.signature_type = "method"
       THEN /\ Len(sig.raw_signature) >= 6
            /\ sig.raw_signature[1] = "def " /\ sig.raw_signature[2] = sig.name
            /\ sig.raw_signature[3] = "(self"
            /\ sig.raw_signature[Len(sig.raw_signature)] = "..."
       ELSE /\ Len(sig.raw_signature) = 3
            /\ sig.raw_signature[1] = sig.name /\ sig.raw_signature[2] = ": "

\* C15 as stated: every declaration a signature creator emitted parses as a
\* statement of a class body, whatever the parameters and defaults of the
\* method are; a property or variable line reads name: Type.
C15_AsStated ==
    result.op = "extract_class_signature" =>
        \A i \in 1..Len(result.signatures) : ParsesAsDeclaration(result.signatures[i])

(***************************************************************************)
(* StubGenerateCommand.execute, step by step.                              *)
(***************************************************************************)
\* execute, up to its loop: discovery and planning (generate.py lines 224-252)
Discover ==
    /\ pc = "start"
    /\ IF DiscoverModules = <<>>
       THEN pc' = "failed" /\ returned' = FALSE /\ unit_idx' = unit_idx
       ELSE pc' = "unit" /\ returned' = returned /\ unit_idx' = 1
    /\ success_count' = 0
    /\ validation_errors' = 0
    /\ run_count' = run_count + 1
    /\ UNCHANGED <<world, watcher, sys_modules, result, class_idx, type_resolver, missing_annotations,
                   all_signatures, class_contents, stub_files, report, produced,
                   unit_resolver, headers, previous_files>>

\* generate_stub_file, up to its loop: clear_state (generate.py lines 162-167)
BeginUnit ==
    /\ pc = "unit"
    /\ unit_idx <= Len(StubPlan)
    /\ missing_annotations' = <<>>
    /\ type_resolver' = ResolverClear(type_resolver)
    /\ unit_resolver' = EmptyResolver
    /\ all_signatures' = <<>>
    /\ class_contents' = <<>>
    /\ class_idx' = 1
    /\ pc' = "classes"
    /\ UNCHANGED <<world, watcher, sys_modules, result, unit_idx, stub_files, success_count,
                   validation_errors, report, returned, produced, headers, run_count,
                   previous_files>>

\* what one iteration of generate_stub_file's loop changes, from the content
\* generate_class_content made (and, for the history, from what it makes on
\* registries fed by this unit alone)
AppendClass(made, alone) ==
    /\ class_contents' = Append(class_contents, made.content)
    /\ all_signatures' = all_signatures \o made.signatures
    /\ type_resolver' = made.resolver
    /\ missing_annotations' = made.missing
    /\ sys_modules' = made.loaded
    /\ produced' = produced \o alone.missing
    /\ unit_resolver' = alone.resolver

\* one iteration of generate_stub_file's loop (generate.py lines 169-178)
GenerateClass ==
    /\ pc = "classes"
    /\ class_idx <= Len(StubPlan[unit_idx].class_infos)
    /\ AppendClass(
          GenerateClassContent(StubPlan[unit_idx].class_infos[class_idx],
                               StubPlan[unit_idx].class_infos[class_idx].category # "standard",
                               type_resolver, missing_annotations),
          GenerateClassContent(StubPlan[unit_idx].class_infos[class_idx],
                               StubPlan[unit_idx].class_infos[class_idx].category # "standard",
                               unit_resolver, <<>>))
    /\ class_idx' = class_idx + 1
    /\ UNCHANGED <<world, watcher, result, pc, unit_idx, stub_files, success_count,
                   validation_errors, report, returned, headers, run_count, previous_files>>

\* a writer that skips validation
MutWriteUnvalidated(files, contents, file) ==
    IF file.path \notin unwritable THEN Append(files, file) ELSE files

\* a loop that lets what a unit raised escape
MutAfterUnitEscapes(raised) == IF raised THEN "failed" ELSE "unit"

\* StubFileGenerator._validate_and_write_stub: the files written once it has
\* returned or raised
ValidateAndWriteStub(files, contents, file) ==
    IF ValidateStubContent(contents) /\ file.path \notin unwritable
    THEN Append(files, file)
    ELSE files

\* where execute stands after the iteration of a unit: its handler swallows
\* what generate_stub_file raised (generate.py lines 255-261)
AfterUnit(raised) == "unit"

\* the rest of generate_stub_file and of the iteration of execute's loop:
\* imports, validation, writing, counting (generate.py lines 180-205, 256-261);
\* when opening the file raises, execute's handler logs it and counts nothing
FinishUnit ==
    /\ pc = "classes"
    /\ class_idx > Len(StubPlan[unit_idx].class_infos)
    /\ LET class_infos == StubPlan[unit_idx].class_infos
           imports == GenerateImportsForStub(class_infos, all_signatures, type_resolver)
           is_valid == ValidateStubContent(class_contents)
       IN /\ headers' = Append(headers,
                [imports EXCEPT !.signature_imports = @] @@
                [alone |-> GenerateImports(unit_resolver, all_signatures,
                                           DefinedClassNames(class_infos)),
                 path |-> StubPlan[unit_idx].path,
                 class_contents |-> class_contents,
                 used_types |-> type_resolver.used_types])
          /\ stub_files' = ValidateAndWriteStub(stub_files, class_contents,
                                [path |-> StubPlan[unit_idx].path, imports |-> imports,
                                 class_contents |-> class_contents])
          /\ pc' = AfterUnit(is_valid /\ StubPlan[unit_idx].path \in unwritable)
          /\ success_count' = IF is_valid /\ StubPlan[unit_idx].path \notin unwritable
                              THEN success_count + 1 ELSE success_count
          /\ validation_errors' = IF is_valid THEN validation_errors ELSE validation_errors + 1
    /\ unit_idx' = unit_idx + 1
    /\ UNCHANGED <<world, watcher, sys_modules, result, class_idx, type_resolver, missing_annotations,
                   all_signatures, class_contents, report, returned, produced, unit_resolver,
                   run_count, previous_files>>

\* where _create_py_typed_marker creates its file
MarkerPath == "py.typed"

\* the end of execute with the return value computed from the units that
\* were attempted instead of the units that were written
MutReportCountsAttempts ==
    /\ pc = "unit"
    /\ unit_idx > Len(StubPlan)
    /\ IF MarkerPath \in unwritable
       THEN report' = report /\ returned' = FALSE /\ pc' = "failed"
       ELSE report' = missing_annotations
            /\ returned' = (success_count + validation_errors = Len(StubPlan))
            /\ pc' = "done"
    /\ UNCHANGED <<world, watcher, sys_modules, result, unit_idx, class_idx, type_resolver,
                   missing_annotations, all_signatures, class_contents, stub_files,
                   success_count, validation_errors, produced, unit_resolver, headers,
                   run_count, previous_files>>

\* execute, after its loop: the marker, the report and the return value
\* (generate.py lines 263-278); when creating the marker raises, the outer
\* handler returns False and none of the summary is made (lines 280-282)
Report ==
    /\ pc = "unit"
    /\ unit_idx > Len(StubPlan)
    /\ IF MarkerPath \in unwritable
       THEN report' = report /\ returned' = FALSE /\ pc' = "failed"
       ELSE report' = missing_annotations /\ returned' = (success_count = Len(StubPlan))
            /\ pc' = "done"
    /\ UNCHANGED <<world, watcher, sys_modules, result, unit_idx, class_idx, type_resolver,
                   missing_annotations, all_signatures, class_contents, stub_files,
                   success_count, validation_errors, produced, unit_resolver, headers,
                   run_count, previous_files>>

(***************************************************************************)
(* Specification of a run: a project of up to two modules whose classes A  *)
(* and I hold up to MaxMembers members.                                    *)
(***************************************************************************)
MaxMembers == 2

RunFacts ==
    {NoFact}
    \cup {Fact("member", c, "k", Function(<<SelfParam, Param("n", "-", "-")>>, "-"), "-") :
            c \in {"A", "I"}}
    \cup {Fact("member", c, "x", Value("int"), t) : c \in {"A", "I"}, t \in {"int", "IB"}}
    \cup {Fact("member", "A", "k", Function(<<SelfParam, Param("n", "int", "str:a\"b")>>, "int"), "-")}

SourceImportChoices ==
    {<<>>, << <<"pkg.iface", "I">> >>, << <<"os", "path">>, <<"typing", "Any">> >>}

Init ==
    /\ \E fs \in [1..MaxMembers -> RunFacts] :
          /\ annotations = AnnotationsOf(fs)
          /\ declared = DeclaredOf(fs)
          /\ init_attrs = InitAttrsOf(fs)
    /\ module_typevars = ModuleTypevarsOf(<< <<>>, <<>> >>)
    /\ orig_bases = OrigBasesOf(<< <<>>, <<>> >>)
    /\ base_classes \in {{}, {"A"}}
    /\ stub_style \in {"module", "package"}
    /\ project_modules \in {<<>>, <<"pkg.a">>, <<"pkg.a", "pkg.iface">>, <<"pkg.iface", "pkg.a">>}
    /\ \E imps \in SourceImportChoices :
          source_imports = [m \in Modules |-> IF m = "pkg.a" THEN imps ELSE <<>>]
    /\ type_checking = [m \in Modules |-> {}]
    /\ unwritable = {}
    /\ NoRun
    /\ pc = "start"
    /\ result = Idle

Next == Discover \/ BeginUnit \/ GenerateClass \/ FinishUnit \/ Report

Spec == Init /\ [][Next]_vars

\* whether the list holds the record
Holds(list, rec) == \E j \in 1..Len(list) : list[j] = rec

\* C8: once execute has generated its units, the list the final missing-
\* annotation report is made from holds every MissingAnnotation record that
\* was produced while generating each of the units.
C8_ReportHoldsEveryRecord ==
    pc = "done" => \A i \in 1..Len(produced) : Holds(report, produced[i])

\* the import statements a registry-made header prints besides typing names
BucketImports(b) == b.standard \cup b.third_party \cup b.type_checking

\* C9: when the generation of a unit starts, the four registries of the
\* resolver are empty, and the import header of every unit holds no import
\* beyond those the types tracked while generating that unit alone give.
C9_RegistriesEmptyAtUnitStart ==
    /\ (pc = "classes" /\ class_idx = 1) => type_resolver = EmptyResolver
    /\ \A u \in 1..Len(headers) :
          /\ BucketImports(headers[u].signature_imports) \subseteq BucketImports(headers[u].alone)
          /\ headers[u].signature_imports.typing \subseteq headers[u].alone.typing

\* C9's case: a second unit starts after a first unit whose header imports a
\* tracked type, and the second unit's header, made from signatures, does
\* not import it
C9_Witness ==
    /\ Len(headers) = 2
    /\ \E imp \in headers[1].signature_imports.type_checking :
          imp \notin BucketImports(headers[2].signature_imports)
    /\ headers[2].signature_imports.typing # {}

\* the names a header imports, from the source module's imports and from
\* every bucket of the registry-made imports
ImportedNames(header) ==
    {header.module_imports[i][2] : i \in 1..Len(header.module_imports)}
    \cup {imp[2] : imp \in BucketImports(header.signature_imports)}
    \cup header.signature_imports.typing

\* C10: in the complete import header of every unit, of either style, no
\* import line names a class that is defined within that unit.
C10_NoInUnitClassImported ==
    \A u \in 1..Len(headers) :
        ImportedNames(headers[u]) \cap DefinedClassNames(StubPlan[u].class_infos) = {}


(***************************************************************************)
(* Specification of repeated runs, as watch mode makes them: the handler   *)
(* keeps one StubGenerateCommand and calls its execute again, in the same  *)
(* process and over the same source.  Module pkg.a may import the external *)
(* class E in its TYPE_CHECKING block.                                     *)
(***************************************************************************)
MaxRuns == 2

\* StubChangeHandler.regenerate_stubs, called again: execute starts over
Regenerate ==
    /\ pc \in {"done", "failed"}
    /\ run_count < MaxRuns
    /\ pc' = "start"
    /\ previous_files' = stub_files
    /\ stub_files' = <<>>
    /\ headers' = <<>>
    /\ produced' = <<>>
    /\ UNCHANGED <<world, watcher, sys_modules, result, unit_idx, class_idx, type_resolver,
                   missing_annotations, all_signatures, class_contents, success_count,
                   validation_errors, report, returned, unit_resolver, run_count>>

RerunFacts ==
    {NoFact,
     Fact("member", "I", "x", Value("int"), ExternalRef),
     Fact("member", "A", "x", Value("int"), "int"),
     Fact("init", "A", "y", NoMember, "E"),
     Fact("init", "I", "y", NoMember, "E"),
     Fact("member", "A", "k", Function(<<SelfParam, Param("n", "-", "-")>>, "-"), "-")}

InitRerun ==
    /\ \E fs \in [1..MaxMembers -> RerunFacts] :
          /\ annotations = AnnotationsOf(fs)
          /\ declared = DeclaredOf(fs)
          /\ init_attrs = InitAttrsOf(fs)
    /\ module_typevars = ModuleTypevarsOf(<< <<>>, <<>> >>)
    /\ orig_bases = OrigBasesOf(<< <<>>, <<>> >>)
    /\ base_classes = {}
    /\ stub_style \in {"module", "package"}
    /\ project_modules \in {<<"pkg.a", "pkg.iface">>, <<"pkg.iface", "pkg.a">>}
    /\ source_imports = [m \in Modules |-> <<>>]
    /\ \E tc \in {{}, {<<"ext", "E">>}} :
          type_checking = [m \in Modules |-> IF m = "pkg.a" THEN tc ELSE {}]
    /\ unwritable = {}
    /\ NoRun
    /\ pc = "start"
    /\ result = Idle

NextRerun == Discover \/ BeginUnit \/ GenerateClass \/ FinishUnit \/ Report \/ Regenerate

SpecRerun == InitRerun /\ [][NextRerun]_vars

\* C11: when the pipeline has run again in the same process over unchanged
\* source, the run has written the same units with the same content as the
\* run before it.
C11_SecondRunWritesTheSame ==
    (pc = "done" /\ run_count >= 2) => stub_files = previous_files


(***************************************************************************)
(* Specification of a run in which units fail: the content of a unit may   *)
(* not parse (a string default holding a quote), and the file system may   *)
(* refuse a stub file or the marker.                                       *)
(***************************************************************************)
FailureFacts ==
    {NoFact,
     Fact("member", "A", "k", Function(<<SelfParam, Param("n", "int", "str:a\"b")>>, "int"), "-"),
     Fact("member", "I", "k", Function(<<SelfParam, Param("n", "int", "str:a\"b")>>, "int"), "-"),
     Fact("member", "I", "x", Value("int"), "int")}

InitFailures ==
    /\ \E fs \in [1..MaxMembers -> FailureFacts] :
          /\ annotations = AnnotationsOf(fs)
          /\ declared = DeclaredOf(fs)
          /\ init_attrs = InitAttrsOf(fs)
    /\ module_typevars = ModuleTypevarsOf(<< <<>>, <<>> >>)
    /\ orig_bases = OrigBasesOf(<< <<>>, <<>> >>)
    /\ base_classes = {}
    /\ stub_style \in {"module", "package"}
    /\ project_modules \in {<<"pkg.a">>, <<"pkg.a", "pkg.iface">>, <<"pkg.iface", "pkg.a">>}
    /\ source_imports = [m \in Modules |-> <<>>]
    /\ type_checking = [m \in Modules |-> {}]
    /\ unwritable \in SUBSET {"pkg", "pkg.a", MarkerPath}
    /\ NoRun
    /\ pc = "start"
    /\ result = Idle

NextFailures == Discover \/ BeginUnit \/ GenerateClass \/ FinishUnit \/ Report

SpecFailures == InitFailures /\ [][NextFailures]_vars

\* a step of generate_stub_file's loop or past it
UnitStep == pc = "classes" /\ (class_idx' # class_idx \/ pc' # pc)

\* execute is sequential code whose every step returns: a step that can be
\* taken is taken.  The last conjunct is the weak fairness of GenerateClass
\* and FinishUnit with their enabling condition, pc = "classes", written out.
SpecFailuresFair ==
    /\ SpecFailures
    /\ WF_vars(Discover) /\ WF_vars(BeginUnit) /\ WF_vars(Report)
    /\ ([]<>(pc # "classes") \/ []<><<UnitStep>>_vars)

\* whether the run has written a file at the path
Written(path) == \E i \in 1..Len(stub_files) : stub_files[i].path = path

\* the units attempted so far whose rendered content does not parse
Rejected ==
    {u \in 1..Len(headers) :
        \E i \in 1..Len(headers[u].class_contents) :
            \E j \in 1..Len(headers[u].class_contents[i]) :
                \E k \in 1..Len(headers[u].class_contents[i][j]) :
                    headers[u].class_contents[i][j][k] \in UnparsableLexemes}

\* C12 as stated: a unit is written exactly when its content passes
\* validation, and the units that fail validation are the ones counted.
C12_AsStated ==
    /\ \A u \in 1..Len(headers) : Written(headers[u].path) <=> u \notin Rejected
    /\ (pc \in {"unit", "done"}) => validation_errors = Cardinality(Rejected)

\* C12: a unit whose rendered content fails validation is never written and
\* is counted as a validation failure; a unit whose content passes validation
\* is written unless opening its file raises, and a unit that is not written
\* for that reason is counted neither as written nor as a validation failure.
C12_WrittenUnlessRejectedOrUnwritable ==
    /\ \A u \in 1..Len(headers) :
          Written(headers[u].path) <=> (u \notin Rejected /\ headers[u].path \notin unwritable)
    /\ (pc \in {"unit", "done", "failed"} /\ unit_idx > 0) =>
          /\ validation_errors = Cardinality(Rejected)
          /\ success_count = Len(stub_files)

\* C12's case: the run has rejected one unit and written another
C12_Witness ==
    /\ pc = "done"
    /\ Rejected # {}
    /\ validation_errors = 1
    /\ Len(stub_files) = 1
    /\ Len(headers) = 2

InitDirect ==
    /\ annotations = AnnotationsOf(<<>>)
    /\ declared = DeclaredOf(<<>>)
    /\ init_attrs = InitAttrsOf(<<>>)
    /\ module_typevars = ModuleTypevarsOf(<< <<>>, <<>> >>)
    /\ orig_bases = OrigBasesOf(<< <<>>, <<>> >>)
    /\ NoProject /\ NoRun
    /\ pc = "direct"
    /\ result = Idle

NextFormat == ApplyFormatType

SpecFormat == InitDirect /\ [][NextFormat]_vars

\* the text of one argument
ArgText(t) == IF t = NoneType THEN "None" ELSE t

\* the texts of the arguments from the i-th on, joined by ", "
RECURSIVE ArgTexts(_, _)
ArgTexts(args, i) ==
    IF i > Len(args) THEN <<>>
    ELSE (IF i > 1 THEN <<", ">> ELSE <<>>) \o <<ArgText(args[i])>> \o ArgTexts(args, i + 1)

\* C16 as stated: format_type renders a union of two members of which one is
\* the none-type as Optional[X], in either order, and every other union as
\* Union[A, B, ...] with the members in the supplied order.
C16_AsStated ==
    (result.op = "format_type" /\ result.annotation.origin \in {"Union", "UnionType"}) =>
        LET args == result.annotation.args
        IN IF Len(args) = 2 /\ NoneType \in SeqToSet(args)
           THEN \E i \in 1..2 :
                   /\ args[i] # NoneType
                   /\ result.text = <<"Optional", "[", ArgText(args[i]), "]">>
           ELSE result.text = <<"Union", "[">> \o ArgTexts(args, 1) \o <<"]">>


(***************************************************************************)
(* Specification of the content of one class.                              *)
(***************************************************************************)
NextContent == ApplyGenerateClassContent

SpecContent == InitExtract /\ [][NextContent]_vars

\* C17: a class for which extraction returned no signature renders as its
\* class line followed by the single body line pass, and hands no signature
\* on to import generation.
C17_EmptyClassRendersPass ==
    (result.op = "generate_class_content" /\ result.extracted = <<>>) =>
        /\ result.content = << <<"class ", result.class_info.name, ":">>, <<"pass">> >>
        /\ result.signatures = <<>>

\* C17's case: a class without members has been rendered, and so has a
\* class whose extraction raised
C17_Witness ==
    /\ result.op = "generate_class_content"
    /\ result.extracted = <<>>
    /\ result.raised
    /\ result.content[2] = <<"pass">>


(***************************************************************************)
(* Specification of the classification of one class.                       *)
(***************************************************************************)
NextClassify == ApplyClassify

SpecClassify == InitDirect /\ [][NextClassify]_vars

\* the tests of a list that gave an answer
Answered(tests) == SelectSeq(tests, LAMBDA t : t # "raises")

\* whether a class is a target by the tests that gave an answer
StatedTarget(rel) ==
    \/ "subclass" \in SeqToSet(Answered(rel.base_tests))
    \/ "subclass" \in SeqToSet(Answered(rel.mixin_tests))
    \/ rel.named_mixin

\* the categories whose test the class passes, most preferred first
StatedCategories(rel) ==
    (IF "subclass" \in SeqToSet(Answered(rel.mixin_tests)) \/ rel.named_mixin
     THEN <<"mixin">> ELSE <<>>)
    \o (IF rel.is_base THEN <<"base">> ELSE <<>>)
    \o (IF rel.is_abc \/ rel.abstract_methods \/ rel.named_abstract
        THEN <<"abstract">> ELSE <<>>)
    \o <<"concrete">>

\* C18: a class gets one category: standard exactly when it is no target; a
\* target gets the first of mixin, base (it is one of the configured base
\* classes), abstract and concrete whose test it passes; and a relationship
\* test that raises counts for nothing.
C18_OneCategoryByPrecedence ==
    result.op = "classify" =>
        /\ result.is_target = StatedTarget(result.rel)
        /\ result.category = IF result.is_target THEN StatedCategories(result.rel)[1]
                             ELSE "standard"

\* C18's case: a target that passes the mixin test, is one of the configured
\* base classes and is abstract, classified while a test raised
C18_Witness ==
    /\ result.op = "classify"
    /\ result.category = "mixin"
    /\ result.rel.is_base /\ result.rel.is_abc
    /\ \E i \in DOMAIN result.rel.base_tests : result.rel.base_tests[i] = "raises"


(***************************************************************************)
(* Specification of watch mode: StubWatchCommand.execute starts the        *)
(* observer and generates the initial stubs; the observer then hands the   *)
(* handler one modification of a watched file at a time.  The model hands  *)
(* over an event when no run is under way; time passes between any steps.  *)
(***************************************************************************)
\* StubChangeHandler.debounce_time (watch.py line 24)
debounce_time == 2

\* how long the watcher is followed, in seconds
MaxTicks == 4

\* how many regenerations of the watcher are followed
MaxWatchRuns == 3

\* a second passes
Tick ==
    /\ now < StartTime + MaxTicks
    /\ now' = now + 1
    /\ UNCHANGED <<world, run, sys_modules, result, pc, last_regeneration, run_starts,
                   handler_pc, events>>

\* StubWatchCommand.execute, from observer.start() to the initial
\* regenerate_stubs() (watch.py lines 93-101): execute starts
WatchStart ==
    /\ pc = "watch"
    /\ pc' = "start"
    /\ run_starts' = Append(run_starts, now)
    /\ UNCHANGED <<world, run, sys_modules, result, now, last_regeneration, handler_pc, events>>

\* StubChangeHandler.on_modified for a file that matches the patterns
\* (watch.py lines 27-47): past the debounce test execute starts over, and
\* last_regeneration becomes the time read before it
OnModified ==
    /\ pc \in {"done", "failed"}
    /\ run_starts # <<>>
    /\ run_count < MaxWatchRuns
    /\ IF now - last_regeneration > debounce_time
       THEN /\ pc' = "start"
            /\ run_starts' = Append(run_starts, now)
            /\ last_regeneration' = now
            /\ previous_files' = stub_files
            /\ stub_files' = <<>>
            /\ headers' = <<>>
            /\ produced' = <<>>
       ELSE UNCHANGED <<pc, run_starts, last_regeneration, previous_files, stub_files,
                        headers, produced>>
    /\ UNCHANGED <<world, sys_modules, result, now, unit_idx, class_idx, type_resolver,
                   missing_annotations, all_signatures, class_contents, success_count,
                   validation_errors, report, returned, unit_resolver, run_count,
                   handler_pc, events>>

InitWatch ==
    /\ \E fs \in [1..1 -> {NoFact, Fact("member", "A", "x", Value("int"), "int")}] :
          /\ annotations = AnnotationsOf(fs)
          /\ declared = DeclaredOf(fs)
          /\ init_attrs = InitAttrsOf(fs)
    /\ module_typevars = ModuleTypevarsOf(<< <<>>, <<>> >>)
    /\ orig_bases = OrigBasesOf(<< <<>>, <<>> >>)
    /\ base_classes = {}
    /\ stub_style = "module"
    /\ project_modules \in {<<>>, <<"pkg.a">>}
    /\ source_imports = [m \in Modules |-> <<>>]
    /\ type_checking = [m \in Modules |-> {}]
    /\ unwritable = {}
    /\ NoRun
    /\ pc = "watch"
    /\ result = Idle

NextWatch ==
    \/ WatchStart \/ OnModified \/ Tick
    \/ Discover \/ BeginUnit \/ GenerateClass \/ FinishUnit \/ Report

SpecWatch == InitWatch /\ [][NextWatch]_vars

\* C20 as stated: every regeneration of the watcher, the first one that an
\* event triggers included, starts more than debounce_time after the
\* regeneration before it, the initial generation included.
C20_AsStated ==
    \A i \in 1..(Len(run_starts) - 1) : run_starts[i + 1] - run_starts[i] > debounce_time

(***************************************************************************)
(* Specification of the formatting of plain dotted strings.                *)
(***************************************************************************)
NextDotted == ApplyTrackAndFormat

SpecDotted == InitDirect /\ [][NextDotted]_vars

\* C21 as stated: for every plain dotted string type, with any number of
\* dotted components, track_type and format_type render only the trailing
\* component and register 'module.Name' in the resolver's forward references.
C21_AsStated ==
    result.op = "track_and_format" =>
        LET parts == result.parts
            n == Len(parts)
        IN /\ result.text = parts[n]
           /\ <<JoinDots(SubSeq(parts, 1, n - 1), 1), parts[n]>> \in result.r.forward_references

(***************************************************************************)
(* The buckets of the registry-made header.                                *)
(***************************************************************************)
\* the names the import statements of a bucket import
NamesIn(bucket) == {imp[2] : imp \in bucket}

\* C22 as stated: each concrete type tracked during a unit falls by its
\* owning module into exactly one bucket of the generated header: a built-in
\* type gives no import line at all, a typing construct appears only in the
\* typing import, a type of the safe-module list only as an ungated import,
\* any other type only in the TYPE_CHECKING block; no name is imported in two
\* groups of the same header.
C22_AsStated ==
    \A u \in 1..Len(headers) : \A t \in headers[u].used_types :
        IsClassObject(t) =>
            LET b == headers[u].signature_imports
                m == TypeModule(t)
                in_typing == t \in b.typing
                in_standard == t \in NamesIn(b.standard)
                in_deferred == t \in NamesIn(b.type_checking)
            IN /\ (m = "builtins") => (~in_typing /\ ~in_standard /\ ~in_deferred)
               /\ (m = "typing") => (~in_standard /\ ~in_deferred)
               /\ (m \in StandardModules) => (~in_typing /\ ~in_deferred)
               /\ (m \notin {"builtins", "typing"} \cup StandardModules)
                      => (~in_typing /\ ~in_standard)
               /\ ~(in_typing /\ in_standard) /\ ~(in_typing /\ in_deferred)
               /\ ~(in_standard /\ in_deferred)

(***************************************************************************)
(* Specification of the constructor-harvested attributes: A and B(A) may   *)
(* annotate k in their bodies and in their constructors.                   *)
(***************************************************************************)
MaxHarvested == 2

SyntheticFacts ==
    {NoFact}
    \cup {Fact("init", c, "k", NoMember, v) : c \in {"A", "B"}, v \in {"int", "str", "Unknown"}}
    \cup {Fact("member", c, "k", NoMember, t) : c \in {"A", "B"}, t \in {"int", "str"}}

InitSynthetic ==
    /\ \E fs \in [1..MaxHarvested -> SyntheticFacts] :
          /\ annotations = AnnotationsOf(fs)
          /\ declared = DeclaredOf(fs)
          /\ init_attrs = InitAttrsOf(fs)
    /\ module_typevars = ModuleTypevarsOf(<< <<>>, <<>> >>)
    /\ orig_bases = OrigBasesOf(<< <<>>, <<>> >>)
    /\ NoProject /\ NoRun
    /\ pc = "direct"
    /\ result = Idle

NextSynthetic == ApplyExtractClassSignature

SpecSynthetic == InitSynthetic /\ [][NextSynthetic]_vars

\* the best-effort type of a constructor annotation: the class it names, or
\* its text
CapturedType(member) ==
    IF ResolveTypeString(member.obj.ret, member.cls, sys_modules) \notin {NoneObj, AnyType}
    THEN ResolveTypeString(member.obj.ret, member.cls, sys_modules)
    ELSE AsString(member.obj.ret)

\* C23 as stated: for every constructor-harvested member the rendered type is
\* the first available of: the target class's own annotation, the type
\* captured from the constructor annotation, the general hint map, Any; a
\* type captured from the constructor annotation wins over a differing entry
\* of the general hint map.
C23_AsStated ==
    result.op = "extract_class_signature" =>
        \A i \in 1..Len(result.signatures) :
            LET name == result.signatures[i].name
                first == result.members_to_process[FirstOf(Producers(name))]
                own == OwnAnnotations(result.cls)[name]
                expected == IF own # NoHint THEN ResolveAnnotation(own) ELSE CapturedType(first)
            IN first.obj.kind = "synthetic" =>
                  result.signatures[i].raw_signature =
                      <<name, ": ", FormatType(EmptyResolver, expected).text>>

(***************************************************************************)
(* Specification of the declared-member walk, over the code bases of the   *)
(* member merge.                                                           *)
(***************************************************************************)
NextMembers == ApplyGetMembers

SpecMembers == InitExtract /\ [][NextMembers]_vars

\* the generic-bound classes injected into the walk the result is of
InjectedBounds ==
    IF result.include_inherited THEN SeqToSet(GetTypevarBounds(result.cls)) ELSE {}

\* the place of a class in the resolution order of the target, the root left out
PlaceOf(cls) ==
    CHOOSE p \in 1..Len(Mro(result.cls)) : Mro(result.cls)[p] = cls

\* C24: every (name, member, class) triple of the declared-member walk has
\* for class the target or a non-root ancestor, visited in resolution order,
\* or an injected generic-bound class; for a class that is no bound the name
\* is declared in that class's own namespace; and the name is neither in
\* the deny-list nor a double-underscore name other than __init__, __str__,
\* __repr__.
C24_WalkedMembersQualify ==
    result.op = "get_members" =>
        \A j \in 1..Len(result.members) :
            LET member == result.members[j]
            IN /\ \/ member.cls \in InjectedBounds
                  \/ /\ member.cls \in SeqToSet(<<result.cls>> \o Ancestors(result.cls))
                     /\ ClassDict(member.cls)[member.name].kind # "-"
                     /\ \A h \in 1..(j - 1) :
                           result.members[h].cls \notin InjectedBounds
                               => PlaceOf(result.members[h].cls) <= PlaceOf(member.cls)
               /\ member.name \notin BUILTIN_ATTRS \cup ABC_INTERNALS
               /\ member.name \in DunderNames => member.name \in {"__init__", "__str__", "__repr__"}

\* C24's case: a walk with inherited members yields a member of an ancestor,
\* leaves out a name the target only inherits, and yields from an injected
\* bound a member the bound itself only inherits
C24_Witness ==
    /\ result.op = "get_members" /\ result.include_inherited
    /\ \E j \in 1..Len(result.members) :
          /\ result.members[j].cls \notin InjectedBounds \cup {result.cls}
          /\ \A h \in 1..Len(result.members) :
                result.members[h].name = result.members[j].name => result.members[h].cls # result.cls
    /\ \E j \in 1..Len(result.members) :
          /\ result.members[j].cls \in InjectedBounds
          /\ ClassDict(result.members[j].cls)[result.members[j].name].kind = "-"

(***************************************************************************)
(* Specification of the search for generic bounds, over the code bases of  *)
(* the member merge.                                                       *)
(***************************************************************************)
NextBounds == ApplyGetTypevarBounds

SpecBounds == InitExtract /\ [][NextBounds]_vars

\* C25 as stated: _get_typevar_bounds(cls) returns a bound class only for a
\* class that is generic over a type parameter having that upper bound; a
\* class that is not gets none, even when its defining module declares
\* bounded type parameters that other classes use.
C25_AsStated ==
    result.op = "_get_typevar_bounds" =>
        \A i \in 1..Len(result.bounds) : result.bounds[i] \in SeqToSet(orig_bases[result.cls])

(***************************************************************************)
(* Specification of the resolution of bare string references: modules get  *)
(* loaded, then one name is categorized.                                   *)
(***************************************************************************)
NextStrings == LoadModule \/ ApplyCategorizeStringType

SpecStrings == InitDirect /\ [][NextStrings]_vars

\* C26 as stated: for a bare string reference that is no built-in primitive
\* name, no in-unit name and no typing construct, if some loaded module
\* exposes a class of that name the header imports the name from the chosen
\* module, a project module before a dependency, the longest name among
\* them; built-in and in-unit names give no import, typing names are
\* imported from typing.
C26_AsStated ==
    result.op = "_categorize_string_type" =>
        LET name == result.type_name
            project == {m \in ExposingModules(name) : ~IsExcludedModule(m)}
            preferred == IF project # {} THEN project ELSE ExposingModules(name)
        IN IF name \in BuiltinTypeNames \/ name \in result.defined_classes
           THEN result.buckets = EmptyBuckets
           ELSE IF name \in TYPING_CONSTRUCTS
           THEN result.buckets = [EmptyBuckets EXCEPT !.typing = {name}]
           ELSE ExposingModules(name) # {} =>
                   \E chosen \in preferred :
                       /\ \A n \in preferred : Len(chosen) >= Len(n)
                       /\ <<chosen, name>> \in result.buckets.type_checking

(***************************************************************************)
(* Specification of the missing-annotation records: A, B(A) and the        *)
(* interface I, of another module, may declare a method k whose parameter  *)
(* or return type is not annotated.                                        *)
(***************************************************************************)
MaxMethods == 2

MissingFacts ==
    {NoFact}
    \cup {Fact("member", c, "k", Function(<<SelfParam, Param("n", a, "-")>>, ret), "-") :
            c \in {"A", "B", "I"}, a \in {"-", "int"}, ret \in {"-", "int"}}

InitMissing ==
    /\ \E fs \in [1..MaxMethods -> MissingFacts], choice \in ExtractBoundChoices :
          /\ annotations = AnnotationsOf(fs)
          /\ declared = DeclaredOf(fs)
          /\ init_attrs = InitAttrsOf(fs)
          /\ module_typevars = ModuleTypevarsOf(choice)
          /\ orig_bases = OrigBasesOf(choice)
    /\ NoProject /\ NoRun
    /\ pc = "direct"
    /\ result = Idle

NextMissing == ApplyExtractClassSignature

SpecMissing == InitMissing /\ [][NextMissing]_vars

\* C27 as stated: every MissingAnnotation the method creator records is
\* consistent: its class_module is the module of the class its class_name
\* names, for own methods and for methods inherited from an ancestor or a
\* generic bound of another module.
C27_AsStated ==
    result.op = "extract_class_signature" =>
        \A i \in 1..Len(result.missing_annotations) :
            result.missing_annotations[i].class_module =
                ClassModule(result.missing_annotations[i].class_name)

(***************************************************************************)
(* Specification of the watcher's two threads.  observer.start() starts    *)
(* the observer's thread, which calls on_modified for one event at a time; *)
(* the main thread goes on to the initial generation.  Both threads use    *)
(* the handler's one StubGenerateCommand, which holds no lock.  The run of *)
(* the main thread is followed step by step; of the run that on_modified   *)
(* makes, the start, the reset of the shared extractor at the start of a   *)
(* unit, and the return are followed.                                      *)
(***************************************************************************)
\* how many events are followed
MaxEvents == 2

\* on_modified is called with a qualifying event (watch.py lines 27-45):
\* past the debounce test, regenerate_stubs is entered
HandlerOnModified ==
    /\ run_starts # <<>>
    /\ handler_pc = "idle"
    /\ Len(events) < MaxEvents
    /\ events' = Append(events, [at |-> now, runs_before |-> Len(run_starts)])
    /\ IF now - last_regeneration > debounce_time
       THEN handler_pc' = "running" /\ run_starts' = Append(run_starts, now)
       ELSE UNCHANGED <<handler_pc, run_starts>>
    /\ UNCHANGED <<world, run, sys_modules, result, pc, now, last_regeneration>>

\* the run on_modified makes reaches generate_stub_file's clear_state
\* (generate.py lines 162-167), on the extractor both threads use
HandlerClearState ==
    /\ handler_pc = "running"
    /\ StubPlan # <<>>
    /\ type_resolver' = ResolverClear(type_resolver)
    /\ missing_annotations' = <<>>
    /\ UNCHANGED <<world, watcher, sys_modules, result, pc, unit_idx, class_idx,
                   all_signatures, class_contents, stub_files, success_count,
                   validation_errors, report, returned, produced, unit_resolver, headers,
                   run_count, previous_files>>

\* regenerate_stubs returns to on_modified, which records the time it read
\* before the call (watch.py lines 46-47)
HandlerReturn ==
    /\ handler_pc = "running"
    /\ handler_pc' = "idle"
    /\ last_regeneration' = run_starts[Len(run_starts)]
    /\ UNCHANGED <<world, run, sys_modules, result, pc, now, run_starts, events>>

NextThreads ==
    \/ WatchStart \/ Tick
    \/ Discover \/ BeginUnit \/ GenerateClass \/ FinishUnit \/ Report
    \/ HandlerOnModified \/ HandlerClearState \/ HandlerReturn

SpecThreads == InitWatch /\ [][NextThreads]_vars

\* the step of Report: the run leaves the loop over the units
ReportStep == pc = "unit" /\ unit_idx > Len(StubPlan) /\ pc' # pc

\* both threads are scheduled; when events arrive and how time passes is
\* left to the environment.  The last two conjuncts are the weak fairness of
\* Report and of GenerateClass and FinishUnit with their enabling conditions
\* written out.
SpecThreadsFair ==
    /\ SpecThreads
    /\ WF_vars(WatchStart) /\ WF_vars(HandlerReturn)
    /\ WF_vars(Discover) /\ WF_vars(BeginUnit)
    /\ ([]<>~(pc = "unit" /\ unit_idx > Len(StubPlan)) \/ []<><<ReportStep>>_vars)
    /\ ([]<>(pc # "classes") \/ []<><<UnitStep>>_vars)

\* C28 as stated: at most one regeneration executes at any time: the initial
\* generation of the main thread and a regeneration that a file-change
\* callback triggers never overlap on the shared generate command.
C28_AsStated ==
    ~(pc \in {"start", "unit", "classes"} /\ handler_pc = "running")

\* C29 as stated: every qualifying modification event is eventually followed
\* by a regeneration that starts at or after the event, events that arrive
\* within debounce_time of the previous regeneration included.
C29_AsStated ==
    \A i \in 1..MaxEvents :
        (Len(events) >= i) ~> (Len(events) >= i /\ Len(run_starts) > events[i].runs_before)

(***************************************************************************)
(* The counters and the return value of execute, over the runs of          *)
(* SpecFailures: units that fail validation, units whose file cannot be    *)
(* opened, a marker that cannot be created.                                *)
(***************************************************************************)
\* the units attempted so far whose generation raised
Raised == {u \in 1..Len(headers) : u \notin Rejected /\ headers[u].path \in unwritable}

\* execute has returned
Ended == pc \in {"done", "failed"}

\* every planned unit was validated and written
AllWritten ==
    /\ Len(headers) = Len(StubPlan)
    /\ \A u \in 1..Len(headers) : u \notin Rejected /\ Written(headers[u].path)

====
